---- MODULE Spec2Model ----
(***************************************************************************)
(* Agent coordination substrate: the task dependency graph                 *)
(* (collaboration/dependency_tracker.py) and the shared context store      *)
(* (collaboration/context_manager.py), modelled as state machines.         *)
(*                                                                         *)
(* Spec       the dependency tracker, every operation, MaxCalls calls      *)
(* GraphSpec  add_task / add_dependency / remove_dependency, unbounded     *)
(* RaceSpec   add_dependency calls of two callers interleaved              *)
(* AccessSpec one context: create, read, share, update, link, and time     *)
(* ShareSpec  one context shared with lists of agents, subscriptions       *)
(* UpdateRaceSpec update_context calls of two callers interleaved          *)
(* LinkSpec   three contexts created, linked and deleted                   *)
(***************************************************************************)
EXTENDS Integers, Sequences, FiniteSets, TLC

(* ----------------------------- bounds ---------------------------------- *)
\* The wall clock (datetime.utcnow) runs from 0 to MaxClock.
MaxClock == 2
\* update_context is applied while the version is below MaxVersion.
MaxVersion == 2
\* link_contexts is applied while a relation list is shorter than MaxRelated.
MaxRelated == 2
\* The tracker with its status transitions is followed for MaxCalls calls.
MaxCalls == 6
\* The conflict engine is followed until the resolution history holds
\* MaxResolutions records.
MaxResolutions == 2
\* The message bus is followed until MaxPublished messages were published.
MaxPublished == 2

(* ----------------------------- universes ------------------------------- *)
TaskIds == {"T1", "T2", "T3"}
Priorities == {1, 2}
Agents == {"Designer", "Developer"}
Callers == {"w1", "w2"}

\* TaskStatus (dependency_tracker.py)
PENDING == "pending"
IN_PROGRESS == "in_progress"
COMPLETED == "completed"
FAILED == "failed"
BLOCKED == "blocked"
TaskStatus == {PENDING, IN_PROGRESS, COMPLETED, FAILED, BLOCKED}

\* AccessLevel (context_manager.py)
PUBLIC == "public"
TEAM == "team"
ROLE == "role"
PRIVATE == "private"
AccessLevel == {PUBLIC, TEAM, ROLE, PRIVATE}

\* Python's None for an Optional[datetime] / Optional[int] field.
None == -1

VARIABLES
    tasks,          \* DependencyTracker.tasks: id -> Task (status, priority, completed_at)
    order,          \* key order of the tasks dict (insertion order)
    dependencies,   \* DependencyTracker.dependencies: id -> set of blocking ids
    dependents,     \* DependencyTracker.dependents: id -> set of dependent ids
    pending,        \* per caller: the add_dependency call between its check and its insertion
    contexts,       \* ContextManager.contexts: id -> Context
    context_history,\* ContextManager.context_history: id -> list of archived versions
    subscriptions,  \* ContextManager.subscriptions: id -> set of agents
    detached,       \* Context objects deleted from contexts that context_history still holds
    now,            \* datetime.utcnow()
    conflicts,      \* ConflictResolver.conflicts: id -> Conflict
    resolution_history, \* ConflictResolver.resolution_history: list of records
    escalation_handler, \* ConflictResolver.escalation_handler: set or None
    backend,        \* MessageBus.backend: its kind, its handle, the connection
    published,      \* what the transport received: list of (channel, message)
    issued,         \* the number of ids uuid4() has produced
    composed,       \* the Message objects a caller has constructed and holds
    audit,          \* AuditLogger: max_events, events, event_index
    calls,          \* the number of calls made so far
    last            \* the last call made and how it ended

trackerVars == <<tasks, order, dependencies, dependents>>
storeVars == <<contexts, context_history, subscriptions, detached, now>>
engineVars == <<conflicts, resolution_history, escalation_handler>>
busVars == <<backend, published, issued>>
protocolVars == <<composed>>
auditVars == <<audit>>
vars == <<tasks, order, dependencies, dependents, pending, contexts,
          context_history, subscriptions, detached, now, conflicts,
          resolution_history, escalation_handler, backend, published, issued,
          composed, audit, calls, last>>

\* An empty dict.
EmptyMap == [k \in {} |-> {}]

\* The record of a call: the operation and how it ended.
Call(op, outcome) == [op |-> op, outcome |-> outcome]

(* ======================= DependencyTracker ============================= *)

\* Task(id, ..., status, priority, completed_at=None)
Task(status, priority) ==
    [status |-> status, priority |-> priority, completed_at |-> None]

\* dict.get(key, set())
GetOrEmpty(map, key) == IF key \in DOMAIN map THEN map[key] ELSE {}

\* map[key] = value on a dict
Put(map, key, value) ==
    [k \in DOMAIN map \cup {key} |-> IF k = key THEN value ELSE map[k]]

\* The nodes the depth-first search of can_reach visits from the nodes in
\* frontier, following the dependents map, given the visited set.
RECURSIVE Visit(_, _, _)
Visit(deps, frontier, visited) ==
    IF frontier \subseteq visited
    THEN visited
    ELSE LET current == CHOOSE n \in frontier \ visited : TRUE
         IN Visit(deps, (frontier \ {current}) \cup GetOrEmpty(deps, current),
                  visited \cup {current})

\* can_reach(current, target): target is current or is found by the search.
can_reach(deps, current, target) ==
    target \in Visit(deps, {current}, {})

\* _would_create_cycle(from_task, to_task) == can_reach(to_task, from_task),
\* the search following self.dependents.
would_create_cycle(from_task, to_task) ==
    can_reach(dependents, to_task, from_task)

\* add_task that also resets the adjacency sets of a re-registered id.
add_task_reset(id, priority) ==
    /\ tasks' = Put(tasks, id, Task(PENDING, priority))
    /\ order' = IF id \in DOMAIN tasks THEN order ELSE Append(order, id)
    /\ dependencies' = Put(dependencies, id, {})
    /\ dependents' = Put(dependents, id, {})
    /\ last' = Call("add_task", IF id \in DOMAIN tasks THEN "overwrote" ELSE "ok")
    /\ UNCHANGED <<pending, storeVars, engineVars, busVars, protocolVars, auditVars>>

\* add_task(task): task has the default status PENDING and completed_at None.
add_task(id, priority) ==
    /\ tasks' = Put(tasks, id, Task(PENDING, priority))
    /\ order' = IF id \in DOMAIN tasks THEN order ELSE Append(order, id)
    /\ dependencies' = IF id \notin DOMAIN dependencies
                       THEN Put(dependencies, id, {}) ELSE dependencies
    /\ dependents' = IF id \notin DOMAIN dependents
                     THEN Put(dependents, id, {}) ELSE dependents
    /\ last' = Call("add_task", IF id \in DOMAIN tasks THEN "overwrote" ELSE "ok")
    /\ UNCHANGED <<pending, storeVars, engineVars, busVars, protocolVars, auditVars>>

\* The two statements that insert the edge.
InsertEdge(dependent_task_id, blocking_task_id) ==
    /\ dependencies' = [dependencies EXCEPT
            ![dependent_task_id] = @ \cup {blocking_task_id}]
    /\ dependents' = [dependents EXCEPT
            ![blocking_task_id] = @ \cup {dependent_task_id}]

\* How add_dependency ends before it inserts: the error it raises, or "ok".
AddDependencyCheck(dependent_task_id, blocking_task_id) ==
    IF dependent_task_id \notin DOMAIN tasks THEN "UnknownTask"
    ELSE IF blocking_task_id \notin DOMAIN tasks THEN "UnknownTask"
    ELSE IF would_create_cycle(dependent_task_id, blocking_task_id)
         THEN "CycleDetected"
    ELSE "ok"

\* add_dependency that inserts the forward edge before it validates.
add_dependency_insert_first(dependent_task_id, blocking_task_id) ==
    LET outcome == AddDependencyCheck(dependent_task_id, blocking_task_id) IN
    /\ IF outcome = "ok"
       THEN InsertEdge(dependent_task_id, blocking_task_id)
       ELSE /\ dependencies' =
                  Put(dependencies, dependent_task_id,
                      GetOrEmpty(dependencies, dependent_task_id)
                          \cup {blocking_task_id})
            /\ UNCHANGED dependents
    /\ last' = Call("add_dependency", outcome)
    /\ UNCHANGED <<tasks, order, pending, storeVars, engineVars, busVars,
                   protocolVars, auditVars>>

\* add_dependency(dependent_task_id, blocking_task_id), run without interruption.
add_dependency(dependent_task_id, blocking_task_id) ==
    LET outcome == AddDependencyCheck(dependent_task_id, blocking_task_id) IN
    /\ IF outcome = "ok"
       THEN InsertEdge(dependent_task_id, blocking_task_id)
       ELSE UNCHANGED <<dependencies, dependents>>
    /\ last' = Call("add_dependency", outcome)
    /\ UNCHANGED <<tasks, order, pending, storeVars, engineVars, busVars,
                   protocolVars, auditVars>>

\* remove_dependency that discards the forward edge only.
remove_dependency_forward_only(dependent_task_id, blocking_task_id) ==
    /\ IF dependent_task_id \notin DOMAIN dependencies
       THEN /\ UNCHANGED dependencies
            /\ last' = Call("remove_dependency", "KeyError")
       ELSE /\ dependencies' = [dependencies EXCEPT
                    ![dependent_task_id] = @ \ {blocking_task_id}]
            /\ last' = Call("remove_dependency", "ok")
    /\ UNCHANGED <<tasks, order, dependents, pending, storeVars, engineVars, busVars,
                   protocolVars, auditVars>>

\* remove_dependency(dependent_task_id, blocking_task_id): a missing key of
\* either map raises KeyError at the statement that indexes it.
remove_dependency(dependent_task_id, blocking_task_id) ==
    /\ IF dependent_task_id \notin DOMAIN dependencies
       THEN /\ UNCHANGED <<dependencies, dependents>>
            /\ last' = Call("remove_dependency", "KeyError")
       ELSE /\ dependencies' = [dependencies EXCEPT
                    ![dependent_task_id] = @ \ {blocking_task_id}]
            /\ IF blocking_task_id \notin DOMAIN dependents
               THEN /\ UNCHANGED dependents
                    /\ last' = Call("remove_dependency", "KeyError")
               ELSE /\ dependents' = [dependents EXCEPT
                           ![blocking_task_id] = @ \ {dependent_task_id}]
                    /\ last' = Call("remove_dependency", "ok")
    /\ UNCHANGED <<tasks, order, pending, storeVars, engineVars, busVars,
                   protocolVars, auditVars>>

\* get_dependencies / get_dependents
get_dependencies(task_id) == GetOrEmpty(dependencies, task_id)
get_dependents(task_id) == GetOrEmpty(dependents, task_id)

\* get_blockers that lets a FAILED blocker through.
get_blockers_failed_passes(task_id) ==
    {blocker_id \in GetOrEmpty(dependencies, task_id) :
        /\ blocker_id \in DOMAIN tasks
        /\ tasks[blocker_id].status \notin {COMPLETED, FAILED}}

\* get_blockers(task_id): the ids of the tasks returned.
get_blockers(task_id) ==
    {blocker_id \in GetOrEmpty(dependencies, task_id) :
        /\ blocker_id \in DOMAIN tasks
        /\ tasks[blocker_id].status # COMPLETED}

\* is_ready(task_id)
is_ready(task_id) == Cardinality(get_blockers(task_id)) = 0

\* list.sort(key=priority) is stable: an element goes after every element
\* already placed whose key is not greater.
RECURSIVE InsertByPriority(_, _)
InsertByPriority(sorted, id) ==
    IF sorted = <<>> THEN <<id>>
    ELSE IF tasks[Head(sorted)].priority <= tasks[id].priority
         THEN <<Head(sorted)>> \o InsertByPriority(Tail(sorted), id)
         ELSE <<id>> \o sorted

\* A sort that places an element before the elements of equal key.
RECURSIVE InsertByPriorityUnstable(_, _)
InsertByPriorityUnstable(sorted, id) ==
    IF sorted = <<>> THEN <<id>>
    ELSE IF tasks[Head(sorted)].priority < tasks[id].priority
         THEN <<Head(sorted)>> \o InsertByPriorityUnstable(Tail(sorted), id)
         ELSE <<id>> \o sorted

RECURSIVE SortByPriorityUnstable(_)
SortByPriorityUnstable(seq) ==
    IF seq = <<>> THEN <<>>
    ELSE InsertByPriorityUnstable(
            SortByPriorityUnstable(SubSeq(seq, 1, Len(seq) - 1)), seq[Len(seq)])

RECURSIVE SortByPriority(_)
SortByPriority(seq) ==
    IF seq = <<>> THEN <<>>
    ELSE InsertByPriority(SortByPriority(SubSeq(seq, 1, Len(seq) - 1)),
                          seq[Len(seq)])

\* The loop of get_ready_tasks without its test of the task's own status.
RECURSIVE ReadyInOrderAnyStatus(_)
ReadyInOrderAnyStatus(seq) ==
    IF seq = <<>> THEN <<>>
    ELSE LET task_id == Head(seq) IN
         IF is_ready(task_id)
         THEN <<task_id>> \o ReadyInOrderAnyStatus(Tail(seq))
         ELSE ReadyInOrderAnyStatus(Tail(seq))

\* The loop of get_ready_tasks over self.tasks.items(), in dict order.
RECURSIVE ReadyInOrder(_)
ReadyInOrder(seq) ==
    IF seq = <<>> THEN <<>>
    ELSE LET task_id == Head(seq) IN
         IF tasks[task_id].status = PENDING /\ is_ready(task_id)
         THEN <<task_id>> \o ReadyInOrder(Tail(seq))
         ELSE ReadyInOrder(Tail(seq))

\* get_ready_tasks(): the ids of the tasks returned, in the order returned.
get_ready_tasks == SortByPriority(ReadyInOrder(order))

\* mark_completed that completes only a task that is ready.
mark_completed_when_ready(task_id) ==
    /\ tasks' = IF task_id \in DOMAIN tasks /\ is_ready(task_id)
                THEN [tasks EXCEPT ![task_id].status = COMPLETED,
                                   ![task_id].completed_at = now]
                ELSE tasks
    /\ last' = Call("mark_completed", "ok")
    /\ UNCHANGED <<order, dependencies, dependents, pending, storeVars, engineVars, busVars,
                   protocolVars, auditVars>>

\* mark_completed(task_id)
mark_completed(task_id) ==
    /\ tasks' = IF task_id \in DOMAIN tasks
                THEN [tasks EXCEPT ![task_id].status = COMPLETED,
                                   ![task_id].completed_at = now]
                ELSE tasks
    /\ last' = Call("mark_completed", "ok")
    /\ UNCHANGED <<order, dependencies, dependents, pending, storeVars, engineVars, busVars,
                   protocolVars, auditVars>>

\* mark_failed(task_id)
mark_failed(task_id) ==
    /\ tasks' = IF task_id \in DOMAIN tasks
                THEN [tasks EXCEPT ![task_id].status = FAILED]
                ELSE tasks
    /\ last' = Call("mark_failed", "ok")
    /\ UNCHANGED <<order, dependencies, dependents, pending, storeVars, engineVars, busVars,
                   protocolVars, auditVars>>

\* update_task_status(task_id, status)
update_task_status(task_id, status) ==
    /\ tasks' = IF task_id \in DOMAIN tasks
                THEN [tasks EXCEPT ![task_id].status = status]
                ELSE tasks
    /\ last' = Call("update_task_status", "ok")
    /\ UNCHANGED <<order, dependencies, dependents, pending, storeVars, engineVars, busVars,
                   protocolVars, auditVars>>

(* ========================== ContextManager ============================= *)

\* del map[key]
Remove(map, key) == [k \in DOMAIN map \ {key} |-> map[k]]

\* dict.update(new_data): top-level keys of new_data override.
Merge(data, new_data) ==
    [k \in DOMAIN data \cup DOMAIN new_data |->
        IF k \in DOMAIN new_data THEN new_data[k] ELSE data[k]]

\* Context(metadata=ContextMetadata(...), data=data) as create_context builds
\* it: version 1, created_at = updated_at = utcnow(), no permissions, no
\* related contexts.
Context(owner, data, access_level, ttl) ==
    [owner |-> owner, access_level |-> access_level, ttl |-> ttl,
     created_at |-> now, updated_at |-> now, version |-> 1,
     related_contexts |-> <<>>, data |-> data,
     access_permissions |-> EmptyMap]

\* is_expired that counts the context as expired from the moment the elapsed
\* time reaches the ttl.
is_expired_at_ttl(context) ==
    IF context.ttl = None THEN FALSE
    ELSE (now - context.created_at) >= context.ttl

\* ContextMetadata.is_expired()
is_expired(context) ==
    IF context.ttl = None THEN FALSE
    ELSE (now - context.created_at) > context.ttl

\* has_access in which the TEAM level opens the context like PUBLIC.
has_access_team_open(context, agent_name) ==
    IF agent_name \in DOMAIN context.access_permissions
    THEN context.access_permissions[agent_name]
    ELSE IF context.access_level \in {PUBLIC, TEAM} THEN TRUE
    ELSE IF context.access_level = PRIVATE THEN agent_name = context.owner
    ELSE FALSE

\* has_access in which a PRIVATE context is open to every agent but its owner.
has_access_private_inverted(context, agent_name) ==
    IF agent_name \in DOMAIN context.access_permissions
    THEN context.access_permissions[agent_name]
    ELSE IF context.access_level = PUBLIC THEN TRUE
    ELSE IF context.access_level = PRIVATE THEN agent_name # context.owner
    ELSE FALSE

\* Context.has_access(agent_name)
has_access(context, agent_name) ==
    IF agent_name \in DOMAIN context.access_permissions
    THEN context.access_permissions[agent_name]
    ELSE IF context.access_level = PUBLIC THEN TRUE
    ELSE IF context.access_level = PRIVATE THEN agent_name = context.owner
    ELSE FALSE

\* The entry create_context puts in the history: the Context object itself.
SameObject == [same_object |-> TRUE, data |-> EmptyMap,
               access_permissions |-> EmptyMap]

\* The entry update_context appends: a new Context holding copies of data and
\* access_permissions (and the metadata object of the live context).
Copy(context) == [same_object |-> FALSE, data |-> context.data,
                  access_permissions |-> context.access_permissions]

\* create_context that keeps the history recorded under the id.
create_context_keeps_history(context_id, owner, data, access_level, ttl) ==
    /\ IF context_id \in DOMAIN contexts
       THEN /\ UNCHANGED <<contexts, context_history, detached>>
            /\ last' = Call("create_context", "AlreadyExists")
       ELSE /\ contexts' = Put(contexts, context_id,
                               Context(owner, data, access_level, ttl))
            /\ context_history' =
                  Put(context_history, context_id,
                      Append(IF context_id \in DOMAIN context_history
                             THEN context_history[context_id] ELSE <<>>,
                             SameObject))
            /\ detached' = Remove(detached, context_id)
            /\ last' = Call("create_context", "ok")
    /\ UNCHANGED <<trackerVars, engineVars, busVars, pending, subscriptions, now,
                   protocolVars, auditVars>>

\* create_context(context_id, context_type, owner, data, access_level, tags, ttl)
create_context(context_id, owner, data, access_level, ttl) ==
    /\ IF context_id \in DOMAIN contexts
       THEN /\ UNCHANGED <<contexts, context_history, detached>>
            /\ last' = Call("create_context", "AlreadyExists")
       ELSE /\ contexts' = Put(contexts, context_id,
                               Context(owner, data, access_level, ttl))
            /\ context_history' = Put(context_history, context_id, <<SameObject>>)
            /\ detached' = Remove(detached, context_id)
            /\ last' = Call("create_context", "ok")
    /\ UNCHANGED <<trackerVars, engineVars, busVars, pending, subscriptions, now,
                   protocolVars, auditVars>>

\* delete_context(context_id): the effect on the store.
Delete(context_id) ==
    /\ contexts' = Remove(contexts, context_id)
    /\ detached' = Put(detached, context_id, contexts[context_id])

\* What get_context(context_id, agent_name) returns: "absent" for None,
\* "context" for the context.
get_context_result(context_id, agent_name) ==
    IF context_id \notin DOMAIN contexts THEN "absent"
    ELSE IF is_expired(contexts[context_id]) THEN "absent"
    ELSE IF ~has_access(contexts[context_id], agent_name) THEN "absent"
    ELSE "context"

\* get_context that checks the access before the expiry.
get_context_access_first(context_id, agent_name) ==
    /\ IF /\ context_id \in DOMAIN contexts
          /\ has_access(contexts[context_id], agent_name)
          /\ is_expired(contexts[context_id])
       THEN Delete(context_id)
       ELSE UNCHANGED <<contexts, detached>>
    /\ last' = Call("get_context", get_context_result(context_id, agent_name))
    /\ UNCHANGED <<trackerVars, engineVars, busVars, pending, context_history, subscriptions, now,
                   protocolVars, auditVars>>

\* get_context(context_id, agent_name): an expired context is deleted.
get_context(context_id, agent_name) ==
    /\ IF context_id \in DOMAIN contexts /\ is_expired(contexts[context_id])
       THEN Delete(context_id)
       ELSE UNCHANGED <<contexts, detached>>
    /\ last' = Call("get_context", get_context_result(context_id, agent_name))
    /\ UNCHANGED <<trackerVars, engineVars, busVars, pending, context_history, subscriptions, now,
                   protocolVars, auditVars>>

\* update_context that also lets an agent holding a grant write.
update_context_granted_writes(context_id, agent_name, new_data) ==
    /\ context_id \in DOMAIN contexts => contexts[context_id].version < MaxVersion
    /\ IF context_id \notin DOMAIN contexts
       THEN /\ UNCHANGED <<contexts, context_history>>
            /\ last' = Call("update_context", "false")
       ELSE IF /\ agent_name # contexts[context_id].owner
               /\ ~(/\ agent_name \in DOMAIN contexts[context_id].access_permissions
                    /\ contexts[context_id].access_permissions[agent_name])
       THEN /\ UNCHANGED <<contexts, context_history>>
            /\ last' = Call("update_context", "false")
       ELSE /\ context_history' =
                  Put(context_history, context_id,
                      Append(IF context_id \in DOMAIN context_history
                             THEN context_history[context_id] ELSE <<>>,
                             Copy(contexts[context_id])))
            /\ contexts' = [contexts EXCEPT
                  ![context_id].data = Merge(@, new_data),
                  ![context_id].updated_at = now,
                  ![context_id].version = @ + 1]
            /\ last' = Call("update_context", "true")
    /\ UNCHANGED <<trackerVars, engineVars, busVars, pending, subscriptions, detached, now,
                   protocolVars, auditVars>>

\* update_context that does not increment the version.
update_context_keeps_version(context_id, agent_name, new_data) ==
    /\ context_id \in DOMAIN contexts => contexts[context_id].version < MaxVersion
    /\ IF context_id \notin DOMAIN contexts
       THEN /\ UNCHANGED <<contexts, context_history>>
            /\ last' = Call("update_context", "false")
       ELSE IF agent_name # contexts[context_id].owner
       THEN /\ UNCHANGED <<contexts, context_history>>
            /\ last' = Call("update_context", "false")
       ELSE /\ context_history' =
                  Put(context_history, context_id,
                      Append(IF context_id \in DOMAIN context_history
                             THEN context_history[context_id] ELSE <<>>,
                             Copy(contexts[context_id])))
            /\ contexts' = [contexts EXCEPT
                  ![context_id].data = Merge(@, new_data),
                  ![context_id].updated_at = now]
            /\ last' = Call("update_context", "true")
    /\ UNCHANGED <<trackerVars, engineVars, busVars, pending, subscriptions, detached, now,
                   protocolVars, auditVars>>

\* update_context(context_id, agent_name, new_data)
update_context(context_id, agent_name, new_data) ==
    /\ context_id \in DOMAIN contexts => contexts[context_id].version < MaxVersion
    /\ IF context_id \notin DOMAIN contexts
       THEN /\ UNCHANGED <<contexts, context_history>>
            /\ last' = Call("update_context", "false")
       ELSE IF agent_name # contexts[context_id].owner
       THEN /\ UNCHANGED <<contexts, context_history>>
            /\ last' = Call("update_context", "false")
       ELSE /\ context_history' =
                  Put(context_history, context_id,
                      Append(IF context_id \in DOMAIN context_history
                             THEN context_history[context_id] ELSE <<>>,
                             Copy(contexts[context_id])))
            /\ contexts' = [contexts EXCEPT
                  ![context_id].data = Merge(@, new_data),
                  ![context_id].updated_at = now,
                  ![context_id].version = @ + 1]
            /\ last' = Call("update_context", "true")
    /\ UNCHANGED <<trackerVars, engineVars, busVars, pending, subscriptions, detached, now,
                   protocolVars, auditVars>>

\* _subscribe_agent for each of the agents.
SubscribeAll(context_id, agents) ==
    Put(subscriptions, context_id, GetOrEmpty(subscriptions, context_id) \cup agents)

\* grant_access for each of the agents.
GrantAll(context, agents) ==
    [context EXCEPT !.access_permissions =
        [a \in DOMAIN @ \cup agents |-> IF a \in agents THEN TRUE ELSE @[a]]]

\* share_context that grants access and does not subscribe the agents.
share_context_grants_only(context_id, agent_names, level) ==
    /\ IF context_id \notin DOMAIN contexts
       THEN /\ UNCHANGED <<contexts, subscriptions>>
            /\ last' = Call("share_context", "false")
       ELSE /\ contexts' = [contexts EXCEPT
                  ![context_id] = GrantAll(@, agent_names)]
            /\ UNCHANGED subscriptions
            /\ last' = Call("share_context", "true")
    /\ UNCHANGED <<trackerVars, engineVars, busVars, pending, context_history, detached, now,
                   protocolVars, auditVars>>

\* share_context(context_id, agent_names, access_level): the level is not
\* read; agent_names is taken as the set of its names.
share_context(context_id, agent_names, level) ==
    /\ IF context_id \notin DOMAIN contexts
       THEN /\ UNCHANGED <<contexts, subscriptions>>
            /\ last' = Call("share_context", "false")
       ELSE /\ contexts' = [contexts EXCEPT
                  ![context_id] = GrantAll(@, agent_names)]
            /\ subscriptions' = IF agent_names = {} THEN subscriptions
                                ELSE SubscribeAll(context_id, agent_names)
            /\ last' = Call("share_context", "true")
    /\ UNCHANGED <<trackerVars, engineVars, busVars, pending, context_history, detached, now,
                   protocolVars, auditVars>>

\* subscribe(context_id, agent_name)
subscribe(context_id, agent_name) ==
    /\ IF context_id \notin DOMAIN contexts
       THEN /\ UNCHANGED subscriptions
            /\ last' = Call("subscribe", "false")
       ELSE /\ subscriptions' = SubscribeAll(context_id, {agent_name})
            /\ last' = Call("subscribe", "true")
    /\ UNCHANGED <<trackerVars, engineVars, busVars, pending, contexts, context_history, detached, now,
                   protocolVars, auditVars>>

\* unsubscribe(context_id, agent_name)
unsubscribe(context_id, agent_name) ==
    /\ IF context_id \notin DOMAIN subscriptions
       THEN /\ UNCHANGED subscriptions
            /\ last' = Call("unsubscribe", "false")
       ELSE /\ subscriptions' = [subscriptions EXCEPT
                  ![context_id] = @ \ {agent_name}]
            /\ last' = Call("unsubscribe", "true")
    /\ UNCHANGED <<trackerVars, engineVars, busVars, pending, contexts, context_history, detached, now,
                   protocolVars, auditVars>>

\* get_subscribed_agents(context_id)
get_subscribed_agents(context_id) == GetOrEmpty(subscriptions, context_id)

\* The Context object made by the last create_context of the id: the live
\* context, or the deleted one that the history still refers to.
Created(context_id) ==
    IF context_id \in DOMAIN contexts THEN contexts[context_id]
    ELSE detached[context_id]

\* get_context_history(context_id)[i].metadata.version: every entry refers to
\* the metadata object of the context created under the id.
history_version(context_id, i) == Created(context_id).version

\* get_context_history(context_id)[i].data
history_data(context_id, i) ==
    IF context_history[context_id][i].same_object
    THEN Created(context_id).data
    ELSE context_history[context_id][i].data

\* find_contexts(agent_name) with no type and no tags filter: the ids of the
\* contexts returned.
find_contexts(agent_name) ==
    {cid \in DOMAIN contexts :
        /\ has_access(contexts[cid], agent_name)
        /\ ~is_expired(contexts[cid])}

\* link_contexts(context_id1, context_id2): with both ids equal the two
\* appends go to one list.
link_contexts(context_id1, context_id2) ==
    /\ (context_id1 \in DOMAIN contexts /\ context_id2 \in DOMAIN contexts)
          => /\ Len(contexts[context_id1].related_contexts)
                  + (IF context_id1 = context_id2 THEN 2 ELSE 1) <= MaxRelated
             /\ Len(contexts[context_id2].related_contexts) < MaxRelated
    /\ IF context_id1 \notin DOMAIN contexts \/ context_id2 \notin DOMAIN contexts
       THEN /\ UNCHANGED contexts
            /\ last' = Call("link_contexts", "false")
       ELSE /\ contexts' =
                  LET first == [contexts EXCEPT
                        ![context_id1].related_contexts = Append(@, context_id2)]
                  IN [first EXCEPT
                        ![context_id2].related_contexts = Append(@, context_id1)]
            /\ last' = Call("link_contexts", "true")
    /\ UNCHANGED <<trackerVars, engineVars, busVars, pending, context_history, subscriptions,
                   detached, now, protocolVars, auditVars>>

\* The for loop of get_related_contexts over the relation list of the context
\* taken from the queue at current_depth: walk holds visited, related and
\* queue.
RECURSIVE RelatedScan(_, _, _)
RelatedScan(related_ids, walk, current_depth) ==
    IF related_ids = <<>> THEN walk
    ELSE LET related_id == Head(related_ids) IN
         IF related_id \in walk.visited
         THEN RelatedScan(Tail(related_ids), walk, current_depth)
         ELSE IF related_id \in DOMAIN contexts
         THEN RelatedScan(Tail(related_ids),
                          [visited |-> walk.visited \cup {related_id},
                           related |-> Append(walk.related, related_id),
                           queue |-> Append(walk.queue,
                                            <<related_id, current_depth + 1>>)],
                          current_depth)
         ELSE RelatedScan(Tail(related_ids),
                          [walk EXCEPT !.visited = @ \cup {related_id}],
                          current_depth)

\* The while loop in which a context at depth is still expanded.
RECURSIVE RelatedLoopDepthInclusive(_, _)
RelatedLoopDepthInclusive(walk, depth) ==
    IF walk.queue = <<>> THEN walk.related
    ELSE LET current == Head(walk.queue)
             rest == [walk EXCEPT !.queue = Tail(@)]
         IN IF current[2] > depth
            THEN RelatedLoopDepthInclusive(rest, depth)
            ELSE RelatedLoopDepthInclusive(
                     RelatedScan(contexts[current[1]].related_contexts,
                                 rest, current[2]),
                     depth)

\* The while loop of get_related_contexts: pops (current, current_depth) and
\* expands it unless current_depth >= depth.
RECURSIVE RelatedLoop(_, _)
RelatedLoop(walk, depth) ==
    IF walk.queue = <<>> THEN walk.related
    ELSE LET current == Head(walk.queue)
             rest == [walk EXCEPT !.queue = Tail(@)]
         IN IF current[2] >= depth
            THEN RelatedLoop(rest, depth)
            ELSE RelatedLoop(
                     RelatedScan(contexts[current[1]].related_contexts,
                                 rest, current[2]),
                     depth)

\* get_related_contexts(context_id, depth): the ids of the contexts returned,
\* in the order of the list.
get_related_contexts(context_id, depth) ==
    IF context_id \notin DOMAIN contexts THEN <<>>
    ELSE RelatedLoop([visited |-> {context_id}, related |-> <<>>,
                      queue |-> <<(<<context_id, 0>>)>>], depth)

\* delete_context that also forgets the subscribers of the context.
delete_context_drops_subscribers(context_id) ==
    /\ IF context_id \in DOMAIN contexts
       THEN /\ Delete(context_id)
            /\ last' = Call("delete_context", "true")
       ELSE /\ UNCHANGED <<contexts, detached>>
            /\ last' = Call("delete_context", "false")
    /\ subscriptions' = Remove(subscriptions, context_id)
    /\ UNCHANGED <<trackerVars, engineVars, busVars, pending, context_history, now,
                   protocolVars, auditVars>>

\* delete_context(context_id)
delete_context(context_id) ==
    /\ IF context_id \in DOMAIN contexts
       THEN /\ Delete(context_id)
            /\ last' = Call("delete_context", "true")
       ELSE /\ UNCHANGED <<contexts, detached>>
            /\ last' = Call("delete_context", "false")
    /\ UNCHANGED <<trackerVars, engineVars, busVars, pending, context_history, subscriptions, now,
                   protocolVars, auditVars>>

\* cleanup_expired()
cleanup_expired ==
    LET expired == {cid \in DOMAIN contexts : is_expired(contexts[cid])} IN
    /\ contexts' = [cid \in DOMAIN contexts \ expired |-> contexts[cid]]
    /\ detached' = [cid \in DOMAIN detached \cup expired |->
                       IF cid \in expired THEN contexts[cid] ELSE detached[cid]]
    /\ last' = Call("cleanup_expired", "ok")
    /\ UNCHANGED <<trackerVars, engineVars, busVars, pending, context_history, subscriptions, now,
                   protocolVars, auditVars>>

\* A second of wall-clock time passes.
Tick ==
    /\ now < MaxClock
    /\ now' = now + 1
    /\ last' = Call("tick", "ok")
    /\ UNCHANGED <<trackerVars, engineVars, busVars, pending, contexts, context_history,
                   subscriptions, detached, protocolVars, auditVars>>

(* ---- add_dependency called by several agents with no lock ------------- *)

\* A caller that is not inside add_dependency.
Idle == [pc |-> "idle", dependent |-> "-", blocking |-> "-"]

\* Lines 81-92 of add_dependency run by caller c: the validation and the cycle
\* check. A call that passes them goes on to the insertion.
add_dependency_check(c, dependent_task_id, blocking_task_id) ==
    LET outcome == AddDependencyCheck(dependent_task_id, blocking_task_id) IN
    /\ pending[c].pc = "idle"
    /\ pending' = IF outcome = "ok"
                  THEN [pending EXCEPT ![c] = [pc |-> "insert",
                                               dependent |-> dependent_task_id,
                                               blocking |-> blocking_task_id]]
                  ELSE pending
    /\ last' = Call("add_dependency", IF outcome = "ok" THEN "checked" ELSE outcome)
    /\ UNCHANGED <<tasks, order, dependencies, dependents, storeVars, engineVars, busVars,
                   protocolVars, auditVars>>

\* Lines 94-96 of add_dependency run by caller c: the insertion.
add_dependency_insert(c) ==
    /\ pending[c].pc = "insert"
    /\ InsertEdge(pending[c].dependent, pending[c].blocking)
    /\ pending' = [pending EXCEPT ![c] = Idle]
    /\ last' = Call("add_dependency", "ok")
    /\ UNCHANGED <<tasks, order, storeVars, engineVars, busVars,
                   protocolVars, auditVars>>

(* ---- update_context called by several agents with no lock ------------- *)

\* Lines 226-245 of update_context run by caller c: the checks, then the copy
\* of the context appended to the history. A refused call returns at once.
update_context_archive(c, context_id, agent_name, new_data) ==
    /\ pending[c].pc = "idle"
    /\ IF context_id \notin DOMAIN contexts
          \/ agent_name # contexts[context_id].owner
       THEN /\ UNCHANGED <<context_history, pending>>
            /\ last' = Call("update_context", "false")
       ELSE /\ context_history' =
                  Put(context_history, context_id,
                      Append(IF context_id \in DOMAIN context_history
                             THEN context_history[context_id] ELSE <<>>,
                             Copy(contexts[context_id])))
            /\ pending' = [pending EXCEPT ![c] =
                  [pc |-> "merge", context_id |-> context_id,
                   new_data |-> new_data]]
            /\ last' = Call("update_context", "archived")
    /\ UNCHANGED <<trackerVars, engineVars, busVars, contexts, subscriptions, detached, now,
                   protocolVars, auditVars>>

\* Lines 248-249 run by caller c: data.update(new_data) and updated_at.
update_context_merge(c) ==
    /\ pending[c].pc = "merge"
    /\ contexts' = [contexts EXCEPT
          ![pending[c].context_id].data = Merge(@, pending[c].new_data),
          ![pending[c].context_id].updated_at = now]
    /\ pending' = [pending EXCEPT ![c] =
          [pc |-> "load_version", context_id |-> pending[c].context_id]]
    /\ last' = Call("update_context", "merged")
    /\ UNCHANGED <<trackerVars, engineVars, busVars, context_history, subscriptions, detached, now,
                   protocolVars, auditVars>>

\* Line 250, version += 1, run by caller c: the read of the attribute.
update_context_load_version(c) ==
    /\ pending[c].pc = "load_version"
    /\ pending' = [pending EXCEPT ![c] =
          [pc |-> "store_version", context_id |-> pending[c].context_id,
           version |-> contexts[pending[c].context_id].version]]
    /\ last' = Call("update_context", "loaded")
    /\ UNCHANGED <<trackerVars, engineVars, busVars, storeVars,
                   protocolVars, auditVars>>

\* Line 250 run by caller c: the write of the incremented value; lines
\* 253-255 then return True.
update_context_store_version(c) ==
    /\ pending[c].pc = "store_version"
    /\ contexts' = [contexts EXCEPT
          ![pending[c].context_id].version = pending[c].version + 1]
    /\ pending' = [pending EXCEPT ![c] = [pc |-> "returned"]]
    /\ last' = Call("update_context", "true")
    /\ UNCHANGED <<trackerVars, engineVars, busVars, context_history, subscriptions, detached, now,
                   protocolVars, auditVars>>

(* ========================== ConflictResolver =========================== *)

\* ConflictStatus (conflict_resolver.py)
OPEN == "open"
RESOLVED == "resolved"
ESCALATED == "escalated"
ABANDONED == "abandoned"

\* ResolutionStrategy (conflict_resolver.py)
MAJORITY_VOTE == "majority_vote"
PRIORITY_BASED == "priority_based"
ESCALATE == "escalate"
CONSENSUS == "consensus"
TIME_BASED == "time_based"
RANDOM == "random"
WEIGHTED_VOTE == "weighted_vote"
ResolutionStrategy == {MAJORITY_VOTE, PRIORITY_BASED, ESCALATE, CONSENSUS,
                       TIME_BASED, RANDOM, WEIGHTED_VOTE}

\* Python's None for an Optional[str] field or result.
NoneStr == "None"

\* Conflict.add_option(option) with an option that has no votes: a dict
\* assignment, which keeps the place of a key that is already there.
add_option(conflict, option_id) ==
    [conflict EXCEPT
        !.options = IF option_id \in DOMAIN conflict.votes
                    THEN @ ELSE Append(@, option_id),
        !.votes = Put(@, option_id, <<>>)]

\* The for loop of create_conflict that adds the options in list order.
RECURSIVE AddOptions(_, _)
AddOptions(conflict, option_ids) ==
    IF option_ids = <<>> THEN conflict
    ELSE AddOptions(add_option(conflict, Head(option_ids)), Tail(option_ids))

\* Conflict(conflict_id, conflict_type, agents_involved, topic, context) with
\* the options added: options is the key order of the dict, votes the lists
\* of the options.
Conflict(agents_involved, option_ids) ==
    AddOptions([agents_involved |-> agents_involved, options |-> <<>>,
                votes |-> EmptyMap, status |-> OPEN, resolved_at |-> None,
                resolution |-> NoneStr, escalation_reason |-> NoneStr],
               option_ids)

\* agent_name in list
In(agent_name, list) == \E i \in 1..Len(list) : list[i] = agent_name

\* Conflict.vote that puts the option it records a vote for at the end of the
\* options.
Conflict_vote_moves_option(conflict, agent_name, option_id) ==
    IF option_id \notin DOMAIN conflict.votes THEN conflict
    ELSE IF In(agent_name, conflict.votes[option_id]) THEN conflict
    ELSE [conflict EXCEPT
            !.options = Append(SelectSeq(@, LAMBDA o : o # option_id),
                               option_id),
            !.votes[option_id] = Append(@, agent_name)]

\* Conflict.vote without the test that the agent has not voted for the option.
Conflict_vote_appends(conflict, agent_name, option_id) ==
    IF option_id \notin DOMAIN conflict.votes THEN conflict
    ELSE [conflict EXCEPT !.votes[option_id] = Append(@, agent_name)]

\* Conflict.vote that records only the votes of the agents involved.
Conflict_vote_involved_only(conflict, agent_name, option_id) ==
    IF option_id \notin DOMAIN conflict.votes THEN conflict
    ELSE IF ~In(agent_name, conflict.agents_involved) THEN conflict
    ELSE IF In(agent_name, conflict.votes[option_id]) THEN conflict
    ELSE [conflict EXCEPT !.votes[option_id] = Append(@, agent_name)]

\* What Conflict.vote(agent_name, option_id) makes of the conflict.
Conflict_vote(conflict, agent_name, option_id) ==
    IF option_id \notin DOMAIN conflict.votes THEN conflict
    ELSE IF In(agent_name, conflict.votes[option_id]) THEN conflict
    ELSE [conflict EXCEPT !.votes[option_id] = Append(@, agent_name)]

\* ConflictOption.get_vote_count()
get_vote_count(conflict, option_id) == Len(conflict.votes[option_id])

\* max(items, key=count) over the options from place i on, best being the
\* largest so far: a later option replaces it only with a greater count.
RECURSIVE MaxFrom(_, _, _)
MaxFrom(conflict, i, best) ==
    IF i > Len(conflict.options) THEN best
    ELSE MaxFrom(conflict, i + 1,
                 IF get_vote_count(conflict, conflict.options[i])
                        > get_vote_count(conflict, best)
                 THEN conflict.options[i] ELSE best)

\* get_winning_option that lets a later option win a tie.
get_winning_option_last_of_ties(conflict) ==
    IF conflict.options = <<>> THEN NoneStr
    ELSE conflict.options[
            CHOOSE i \in 1..Len(conflict.options) :
               /\ \A j \in 1..Len(conflict.options) :
                     get_vote_count(conflict, conflict.options[j])
                        <= get_vote_count(conflict, conflict.options[i])
               /\ \A j \in (i + 1)..Len(conflict.options) :
                     get_vote_count(conflict, conflict.options[j])
                        < get_vote_count(conflict, conflict.options[i])]

\* Conflict.get_winning_option()
get_winning_option(conflict) ==
    IF conflict.options = <<>> THEN NoneStr
    ELSE MaxFrom(conflict, 2, conflict.options[1])

\* _resolve_by_majority(conflict)
resolve_by_majority(conflict) ==
    IF conflict.options = <<>> THEN NoneStr
    ELSE get_winning_option(conflict)

\* _resolve_by_priority(conflict)
resolve_by_priority(conflict) ==
    IF conflict.options = <<>> THEN NoneStr ELSE conflict.options[1]

\* The for loop of _resolve_by_consensus from place i on.
RECURSIVE ConsensusFrom(_, _)
ConsensusFrom(conflict, i) ==
    IF i > Len(conflict.options) THEN NoneStr
    ELSE IF Len(conflict.votes[conflict.options[i]])
               = Len(conflict.agents_involved)
    THEN conflict.options[i]
    ELSE ConsensusFrom(conflict, i + 1)

\* _resolve_by_consensus that compares the list of votes with the list of
\* agents instead of their lengths.
resolve_by_consensus_same_list(conflict) ==
    IF \E i \in 1..Len(conflict.options) :
          conflict.votes[conflict.options[i]] = conflict.agents_involved
    THEN conflict.options[
            CHOOSE i \in 1..Len(conflict.options) :
               /\ conflict.votes[conflict.options[i]] = conflict.agents_involved
               /\ \A j \in 1..(i - 1) :
                     conflict.votes[conflict.options[j]] # conflict.agents_involved]
    ELSE NoneStr

\* _resolve_by_consensus(conflict)
resolve_by_consensus(conflict) == ConsensusFrom(conflict, 1)

\* _resolve_by_time(conflict)
resolve_by_time(conflict) ==
    IF conflict.options = <<>> THEN NoneStr ELSE conflict.options[1]

\* _resolve_by_weighted_vote(conflict)
resolve_by_weighted_vote(conflict) == resolve_by_majority(conflict)

\* _resolve_by_random(conflict): what random.choice can return.
resolve_by_random(conflict) ==
    IF conflict.options = <<>> THEN {NoneStr}
    ELSE {conflict.options[i] : i \in 1..Len(conflict.options)}

\* The results the strategy can compute in resolve (lines 198-211): one
\* result, or for RANDOM any of the options.
StrategyResults(conflict, strategy) ==
    IF strategy = MAJORITY_VOTE THEN {resolve_by_majority(conflict)}
    ELSE IF strategy = PRIORITY_BASED THEN {resolve_by_priority(conflict)}
    ELSE IF strategy = CONSENSUS THEN {resolve_by_consensus(conflict)}
    ELSE IF strategy = TIME_BASED THEN {resolve_by_time(conflict)}
    ELSE IF strategy = WEIGHTED_VOTE THEN {resolve_by_weighted_vote(conflict)}
    ELSE IF strategy = RANDOM THEN resolve_by_random(conflict)
    ELSE {NoneStr}

\* 'if result:' on an Optional[str]: None and the empty string are false.
Truthy(result) == result # NoneStr /\ result # ""

\* The record _record_resolution appends.
ResolutionRecord(conflict_id, strategy, resolution) ==
    [conflict_id |-> conflict_id, strategy |-> strategy,
     resolution |-> resolution, resolved_at |-> now]

\* create_conflict(conflict_id, conflict_type, agents_involved, topic, options)
create_conflict(conflict_id, agents_involved, option_ids) ==
    /\ conflicts' = Put(conflicts, conflict_id,
                        Conflict(agents_involved, option_ids))
    /\ last' = Call("create_conflict", "ok")
    /\ UNCHANGED <<trackerVars, pending, storeVars, resolution_history,
                   escalation_handler, busVars, protocolVars, auditVars>>

\* conflicts[conflict_id].vote(agent_name, option_id)
vote(conflict_id, agent_name, option_id) ==
    /\ conflict_id \in DOMAIN conflicts
    /\ conflicts' = [conflicts EXCEPT
          ![conflict_id] = Conflict_vote(@, agent_name, option_id)]
    /\ last' = Call("vote", IF option_id \in DOMAIN conflicts[conflict_id].votes
                            THEN "true" ELSE "false")
    /\ UNCHANGED <<trackerVars, pending, storeVars, resolution_history,
                   escalation_handler, busVars, protocolVars, auditVars>>

\* resolve that keeps the resolution of a conflict that has one.
resolve_keeps_resolution(conflict_id, strategy) ==
    /\ IF conflict_id \notin DOMAIN conflicts
       THEN /\ UNCHANGED <<conflicts, resolution_history>>
            /\ last' = Call("resolve", NoneStr)
       ELSE \E result \in StrategyResults(conflicts[conflict_id], strategy) :
            IF Truthy(result)
            THEN /\ conflicts' = [conflicts EXCEPT
                       ![conflict_id].resolution =
                           IF @ = NoneStr THEN result ELSE @,
                       ![conflict_id].status = RESOLVED,
                       ![conflict_id].resolved_at = now]
                 /\ resolution_history' =
                       Append(resolution_history,
                              ResolutionRecord(conflict_id, strategy, result))
                 /\ last' = Call("resolve", result)
            ELSE /\ UNCHANGED <<conflicts, resolution_history>>
                 /\ last' = Call("resolve", NoneStr)
    /\ UNCHANGED <<trackerVars, pending, storeVars, escalation_handler, busVars,
                   protocolVars, auditVars>>

\* resolve that marks the conflict RESOLVED whatever the result is.
resolve_marks_resolved(conflict_id, strategy) ==
    /\ IF conflict_id \notin DOMAIN conflicts
       THEN /\ UNCHANGED <<conflicts, resolution_history>>
            /\ last' = Call("resolve", NoneStr)
       ELSE \E result \in StrategyResults(conflicts[conflict_id], strategy) :
            IF Truthy(result)
            THEN /\ conflicts' = [conflicts EXCEPT
                       ![conflict_id].resolution = result,
                       ![conflict_id].status = RESOLVED,
                       ![conflict_id].resolved_at = now]
                 /\ resolution_history' =
                       Append(resolution_history,
                              ResolutionRecord(conflict_id, strategy, result))
                 /\ last' = Call("resolve", result)
            ELSE /\ conflicts' = [conflicts EXCEPT
                       ![conflict_id].status = RESOLVED]
                 /\ UNCHANGED resolution_history
                 /\ last' = Call("resolve", NoneStr)
    /\ UNCHANGED <<trackerVars, pending, storeVars, escalation_handler, busVars,
                   protocolVars, auditVars>>

\* resolve(conflict_id, strategy)
resolve(conflict_id, strategy) ==
    /\ IF conflict_id \notin DOMAIN conflicts
       THEN /\ UNCHANGED <<conflicts, resolution_history>>
            /\ last' = Call("resolve", NoneStr)
       ELSE \E result \in StrategyResults(conflicts[conflict_id], strategy) :
            IF Truthy(result)
            THEN /\ conflicts' = [conflicts EXCEPT
                       ![conflict_id].resolution = result,
                       ![conflict_id].status = RESOLVED,
                       ![conflict_id].resolved_at = now]
                 /\ resolution_history' =
                       Append(resolution_history,
                              ResolutionRecord(conflict_id, strategy, result))
                 /\ last' = Call("resolve", result)
            ELSE /\ UNCHANGED <<conflicts, resolution_history>>
                 /\ last' = Call("resolve", NoneStr)
    /\ UNCHANGED <<trackerVars, pending, storeVars, escalation_handler, busVars,
                   protocolVars, auditVars>>

\* escalate_conflict(conflict_id, reason): the outcome tells whether the
\* escalation handler was called.
escalate_conflict(conflict_id, reason) ==
    /\ IF conflict_id \notin DOMAIN conflicts
       THEN /\ UNCHANGED conflicts
            /\ last' = Call("escalate_conflict", "false")
       ELSE /\ conflicts' = [conflicts EXCEPT
                  ![conflict_id].status = ESCALATED,
                  ![conflict_id].escalation_reason = reason]
            /\ last' = Call("escalate_conflict",
                            IF escalation_handler THEN "true, handler called"
                            ELSE "true")
    /\ UNCHANGED <<trackerVars, pending, storeVars, resolution_history,
                   escalation_handler, busVars, protocolVars, auditVars>>

\* set_escalation_handler(handler)
set_escalation_handler ==
    /\ escalation_handler' = TRUE
    /\ last' = Call("set_escalation_handler", "ok")
    /\ UNCHANGED <<trackerVars, pending, storeVars, conflicts,
                   resolution_history, busVars, protocolVars, auditVars>>

(* ============================= MessageBus ============================== *)

\* No MessageBus has been constructed.
NoBackend == [kind |-> "none", handle |-> FALSE, open |-> FALSE]

\* RedisBackend(url) and RabbitMQBackend(url) as __init__ leaves them: handle
\* tells whether self.redis (self.channel) is set, open whether the client it
\* names holds an open connection to the server.
RedisBackend == [kind |-> "redis", handle |-> FALSE, open |-> FALSE]
RabbitMQBackend == [kind |-> "rabbitmq", handle |-> FALSE, open |-> FALSE]

\* MessagePriority (protocol.py)
HIGH == 1
NORMAL == 2

\* Message.to_agent: one name, or a list of names (isinstance(to_agent, list)).
Single(name) == [is_list |-> FALSE, names |-> <<name>>]
Several(names) == [is_list |-> TRUE, names |-> names]

\* str(uuid4()) after ids have been issued: an id that no message has yet.
uuid4 == issued + 1

\* Message(id, from_agent, to_agent, msg_type, subject, data, priority)
Message(id, from_agent, to_agent, msg_type, subject, data, priority) ==
    [id |-> id, from_agent |-> from_agent, to_agent |-> to_agent,
     msg_type |-> msg_type, subject |-> subject, data |-> data,
     priority |-> priority]

\* f"agents:{agent_name}"
Channel(agent_name) == <<"agents", agent_name>>

\* What a call returned, or the error it raised.
Returned(value) == [error |-> "none", value |-> value]
Raised(error) == [error |-> error, value |-> <<>>]

\* RedisBackend.connect(): the import or from_url fails and self.redis is as
\* it was, or the new client is stored and its ping fails, or it succeeds.
RedisConnect(b, result) ==
    IF result = "no client" THEN b
    ELSE IF result = "no server" THEN [b EXCEPT !.handle = TRUE, !.open = FALSE]
    ELSE [b EXCEPT !.handle = TRUE, !.open = TRUE]

\* RabbitMQBackend.connect(): self.channel is set only after the connection
\* is open.
RabbitConnect(b, result) ==
    IF result = "connected" THEN [b EXCEPT !.handle = TRUE, !.open = TRUE]
    ELSE b

\* backend.connect() and whether it raised ConnectionError.
ConnectResults == {"connected", "no client", "no server"}
Connect(b, result) ==
    IF b.kind = "redis" THEN RedisConnect(b, result)
    ELSE RabbitConnect(b, result)

\* backend.disconnect(): the client is closed and the reference to it stays.
Disconnect(b) == [b EXCEPT !.open = FALSE]

\* RedisBackend.publish(channel, message) on the list pub of published
\* messages. A client that was closed connects again when it is used, if the
\* server can be reached, and raises the library's error if not.
RedisPublish(b, pub, channel, message, reachable) ==
    IF ~b.handle
    THEN [backend |-> b, published |-> pub, error |-> "RuntimeError"]
    ELSE IF b.open \/ reachable
    THEN [backend |-> [b EXCEPT !.open = TRUE],
          published |-> Append(pub, [channel |-> channel, message |-> message]),
          error |-> "none"]
    ELSE [backend |-> b, published |-> pub, error |-> "redis.ConnectionError"]

\* RabbitMQBackend.publish(channel, message): queue_declare raises on a
\* closed channel, and on an open one the name pika, imported only inside
\* connect, is not defined where the properties of the message are built.
RabbitPublish(b, pub, channel, message, reachable) ==
    IF ~b.handle
    THEN [backend |-> b, published |-> pub, error |-> "RuntimeError"]
    ELSE IF ~b.open
    THEN [backend |-> b, published |-> pub, error |-> "pika.ChannelWrongStateError"]
    ELSE [backend |-> b, published |-> pub, error |-> "NameError"]

\* self.backend.publish(channel, message)
Publish(b, pub, channel, message, reachable) ==
    IF b.kind = "redis" THEN RedisPublish(b, pub, channel, message, reachable)
    ELSE RabbitPublish(b, pub, channel, message, reachable)

\* What MessageBus.send_message(message) does to the backend and to the
\* published messages, and its error.
SendMessage(b, pub, message, reachable) ==
    IF message.to_agent.is_list /\ message.to_agent.names = <<>>
    THEN [backend |-> b, published |-> pub, error |-> "IndexError"]
    ELSE Publish(b, pub, Channel(message.to_agent.names[1]), message, reachable)

\* The for loop of broadcast_message from recipient i on: done holds the
\* backend, the published messages, the ids issued and the ids returned so
\* far; an error of send_message ends the loop and the call.
RECURSIVE BroadcastFrom(_, _, _, _)
BroadcastFrom(message, i, done, reachable) ==
    IF i > Len(message.to_agent.names) THEN done
    ELSE LET msg_copy == Message(done.issued + 1, message.from_agent,
                                 Single(message.to_agent.names[i]),
                                 message.msg_type, message.subject,
                                 message.data, message.priority)
             sent == SendMessage(done.backend, done.published, msg_copy,
                                 reachable)
         IN IF sent.error # "none"
            THEN [done EXCEPT !.issued = @ + 1, !.error = sent.error]
            ELSE BroadcastFrom(message, i + 1,
                               [backend |-> sent.backend,
                                published |-> sent.published,
                                issued |-> done.issued + 1,
                                message_ids |-> Append(done.message_ids,
                                                       msg_copy.id),
                                error |-> "none"],
                               reachable)

\* MessageBus(backend_type): the backend is made and connected; an unknown
\* backend type or a failed connect raises and leaves no bus.
MessageBus(backend_type, result) ==
    /\ backend = NoBackend
    /\ IF backend_type \notin {"redis", "rabbitmq"}
       THEN /\ UNCHANGED backend
            /\ last' = Call("MessageBus", Raised("ValueError"))
       ELSE LET b == Connect(IF backend_type = "redis" THEN RedisBackend
                             ELSE RabbitMQBackend, result)
            IN IF result = "connected"
               THEN /\ backend' = b
                    /\ last' = Call("MessageBus", Returned("bus"))
               ELSE /\ UNCHANGED backend
                    /\ last' = Call("MessageBus", Raised("ConnectionError"))
    /\ UNCHANGED <<trackerVars, pending, storeVars, engineVars, published,
                   issued, protocolVars, auditVars>>

\* message_bus.backend.connect() on the backend of a bus
connect(result) ==
    /\ backend # NoBackend
    /\ backend' = Connect(backend, result)
    /\ last' = Call("connect", IF result = "connected" THEN Returned("none")
                               ELSE Raised("ConnectionError"))
    /\ UNCHANGED <<trackerVars, pending, storeVars, engineVars, published,
                   issued, protocolVars, auditVars>>

\* MessageBus.close()
close ==
    /\ backend # NoBackend
    /\ backend' = Disconnect(backend)
    /\ last' = Call("close", Returned("none"))
    /\ UNCHANGED <<trackerVars, pending, storeVars, engineVars, published,
                   issued, protocolVars, auditVars>>

\* MessageBus.send_message(message)
send_message(message, reachable) ==
    /\ backend # NoBackend
    /\ LET sent == SendMessage(backend, published, message, reachable) IN
       /\ backend' = sent.backend
       /\ published' = sent.published
       /\ last' = Call("send_message",
                       IF sent.error = "none" THEN Returned(message.id)
                       ELSE Raised(sent.error))
    /\ UNCHANGED <<trackerVars, pending, storeVars, engineVars, issued,
                   protocolVars, auditVars>>

\* MessageBus.broadcast_message(message)
broadcast_message(message, reachable) ==
    /\ backend # NoBackend
    /\ LET done == IF message.to_agent.is_list
                   THEN BroadcastFrom(message, 1,
                                      [backend |-> backend,
                                       published |-> published,
                                       issued |-> issued,
                                       message_ids |-> <<>>,
                                       error |-> "none"],
                                      reachable)
                   ELSE [backend |-> backend, published |-> published,
                         issued |-> issued, message_ids |-> <<>>,
                         error |-> "none"]
       IN /\ backend' = done.backend
          /\ published' = done.published
          /\ issued' = done.issued
          /\ last' = Call("broadcast_message",
                          IF done.error = "none" THEN Returned(done.message_ids)
                          ELSE Raised(done.error))
    /\ UNCHANGED <<trackerVars, pending, storeVars, engineVars,
                   protocolVars, auditVars>>

(* ============================== protocol =============================== *)

\* MessageType (protocol.py)
TASK_REQUEST == "task_request"
MessageType ==
    {TASK_REQUEST, "task_update", "task_complete", "task_failed",
     "dependency_check", "context_share", "state_sync", "request_feedback",
     "provide_feedback", "conflict_notification", "decision_needed", "ack",
     "nack"}

\* MessagePriority (protocol.py): CRITICAL, HIGH, NORMAL, LOW
MessagePriority == {0, HIGH, NORMAL, 3}

\* MessageStatus (protocol.py)
MessageStatus == {"pending", "delivered", "processed", "failed", "expired"}

\* A Python value given as to_agent: a str, a list with its elements, or a
\* value of another type (an int, None).
Str(name) == [type |-> "str", names |-> <<name>>]
List(names) == [type |-> "list", names |-> names]
Other(type) == [type |-> type, names |-> <<>>]

\* The Message dataclass with the fields validate_message and is_expired read,
\* after __post_init__: a null id becomes str(uuid4()), a null timestamp
\* becomes datetime.utcnow().
Message_post_init(id, from_agent, to_agent, msg_type, subject, data, priority, timestamp, status, ttl) ==
    [id |-> IF id = None THEN uuid4 ELSE id,
     from_agent |-> from_agent, to_agent |-> to_agent, msg_type |-> msg_type,
     subject |-> subject, data |-> data, priority |-> priority,
     timestamp |-> IF timestamp = None THEN now ELSE timestamp,
     status |-> status, ttl |-> ttl]

\* Message.is_expired with 'elapsed >= self.ttl'
Message_is_expired_at_ttl(message) ==
    IF message.ttl = None THEN FALSE
    ELSE now - message.timestamp >= message.ttl

\* Message.is_expired(): no ttl never expires; else elapsed > ttl
Message_is_expired(message) ==
    IF message.ttl = None THEN FALSE
    ELSE now - message.timestamp > message.ttl

\* ProtocolValidator.REQUIRED_FIELDS that are None in the message
MissingFields(message) ==
    {field \in {"id", "from_agent", "to_agent", "msg_type", "subject", "data"} :
        CASE field = "id" -> message.id = None
          [] field = "from_agent" -> message.from_agent = NoneStr
          [] field = "to_agent" -> message.to_agent.type = "NoneType"
          [] field = "msg_type" -> message.msg_type = NoneStr
          [] field = "subject" -> message.subject = NoneStr
          [] field = "data" -> message.data = NoneStr}

\* The (False, reason) and (True, None) pairs validate_message returns; the
\* reason is a list of its parts and None is the empty list.
Rejected(reason) == <<FALSE, reason>>
Accepted == <<TRUE, <<>>>>

\* ProtocolValidator.validate_message(message): the pairs it can return.
\* REQUIRED_FIELDS is a set, so of several missing fields any one is the
\* first the loop meets.
validate_message(message) ==
    IF MissingFields(message) # {}
    THEN {Rejected(<<"Missing required field", field>>) :
             field \in MissingFields(message)}
    ELSE IF message.msg_type \notin MessageType
    THEN {Rejected(<<"Invalid message type">>)}
    ELSE IF message.priority \notin MessagePriority
    THEN {Rejected(<<"Invalid priority">>)}
    ELSE IF message.status \notin MessageStatus
    THEN {Rejected(<<"Invalid status">>)}
    ELSE IF message.to_agent.type = "list" /\ message.to_agent.names = <<>>
    THEN {Rejected(<<"to_agent list cannot be empty">>)}
    ELSE IF message.to_agent.type \notin {"list", "str"}
    THEN {Rejected(<<"to_agent must be string or list", message.to_agent.type>>)}
    ELSE IF Message_is_expired(message)
    THEN {Rejected(<<"Message has expired">>)}
    ELSE {Accepted}

\* A caller constructs a Message and holds it.
compose(id, to_agent, msg_type, subject, timestamp, ttl) ==
    /\ composed' = <<Message_post_init(id, "Developer", to_agent, msg_type,
                                       subject, "doc", NORMAL, timestamp,
                                       "pending", ttl)>>
    /\ issued' = IF id = None THEN issued + 1 ELSE issued
    /\ last' = Call("Message", Returned("message"))
    /\ UNCHANGED <<trackerVars, pending, storeVars, engineVars, backend,
                   published, auditVars>>

\* message.is_expired() on the message held
call_is_expired ==
    /\ composed # <<>>
    /\ last' = Call("is_expired", Returned(Message_is_expired(composed[1])))
    /\ UNCHANGED <<trackerVars, pending, storeVars, engineVars, busVars,
                   protocolVars, auditVars>>

\* ProtocolValidator.validate_message(message) on the message held
call_validate_message ==
    /\ composed # <<>>
    /\ \E result \in validate_message(composed[1]) :
          last' = Call("validate_message", Returned(result))
    /\ UNCHANGED <<trackerVars, pending, storeVars, engineVars, busVars,
                   protocolVars, auditVars>>

(* ============================= AuditLogger ============================= *)

\* No AuditLogger has been constructed.
NoLogger == [max_events |-> 0, events |-> <<>>, event_index |-> EmptyMap]

\* AuditLogger(max_events)
AuditLogger(max_events) ==
    /\ audit = NoLogger
    /\ audit' = [max_events |-> max_events, events |-> <<>>,
                 event_index |-> EmptyMap]
    /\ last' = Call("AuditLogger", Returned("logger"))
    /\ UNCHANGED <<trackerVars, pending, storeVars, engineVars, busVars,
                   protocolVars>>

\* The index _cleanup_oldest rebuilds: subject -> positions (from 0) of its
\* events in the list.
EventIndex(events) ==
    [subject \in {events[i].subject : i \in 1..Len(events)} |->
        SelectSeq([i \in 1..Len(events) |-> i - 1],
                  LAMBDA idx : events[idx + 1].subject = subject)]

\* AuditLogger._cleanup_oldest(): drops the oldest max_events // 10 events
\* and rebuilds the index.
cleanup_oldest(logger) ==
    LET remove_count == logger.max_events \div 10
        kept == SubSeq(logger.events, remove_count + 1, Len(logger.events))
    IN [logger EXCEPT !.events = kept, !.event_index = EventIndex(kept)]

\* log_event up to its return: the event is appended and indexed, then the
\* list is cleaned when it is longer than max_events.
LogEvent(logger, event) ==
    LET events == Append(logger.events, event)
        indexed == IF event.subject \in DOMAIN logger.event_index
                   THEN logger.event_index[event.subject]
                   ELSE <<>>
        event_index ==
            [subject \in DOMAIN logger.event_index \cup {event.subject} |->
                IF subject = event.subject
                THEN Append(indexed, Len(events) - 1)
                ELSE logger.event_index[subject]]
        appended == [logger EXCEPT !.events = events,
                                   !.event_index = event_index]
    IN IF Len(events) > logger.max_events THEN cleanup_oldest(appended)
       ELSE appended

\* AuditLogger.log_event(event_type, agent, subject, action)
log_event(event_type, agent, subject, action) ==
    /\ audit # NoLogger
    /\ audit' = LogEvent(audit, [event_type |-> event_type, timestamp |-> now,
                                 agent |-> agent, subject |-> subject,
                                 action |-> action])
    /\ last' = Call("log_event", Returned("event"))
    /\ UNCHANGED <<trackerVars, pending, storeVars, engineVars, busVars,
                   protocolVars>>

\* AuditLogger.clear_events()
clear_events ==
    /\ audit # NoLogger
    /\ audit' = [audit EXCEPT !.events = <<>>, !.event_index = EmptyMap]
    /\ last' = Call("clear_events", Returned("none"))
    /\ UNCHANGED <<trackerVars, pending, storeVars, engineVars, busVars,
                   protocolVars>>

(* ========================= specifications ============================== *)

Init ==
    /\ tasks = EmptyMap
    /\ order = <<>>
    /\ dependencies = EmptyMap
    /\ dependents = EmptyMap
    /\ pending = [c \in Callers |-> Idle]
    /\ contexts = EmptyMap
    /\ context_history = EmptyMap
    /\ subscriptions = EmptyMap
    /\ detached = EmptyMap
    /\ now = 0
    /\ conflicts = EmptyMap
    /\ resolution_history = <<>>
    /\ escalation_handler = FALSE
    /\ backend = NoBackend
    /\ published = <<>>
    /\ issued = 0
    /\ composed = <<>>
    /\ audit = NoLogger
    /\ calls = 0
    /\ last = Call("init", "ok")

\* A call that counts against the budget of MaxCalls calls.
Counted(call) == calls < MaxCalls /\ calls' = calls + 1 /\ call

\* A call of a specification that is followed without a budget.
Free(call) == call /\ UNCHANGED calls

\* The whole dependency tracker, one call at a time, followed for MaxCalls
\* calls.
Next ==
    \/ \E id \in TaskIds, priority \in Priorities :
          Counted(add_task(id, priority))
    \/ \E d \in TaskIds, b \in TaskIds : Counted(add_dependency(d, b))
    \/ \E d \in TaskIds, b \in TaskIds : Counted(remove_dependency(d, b))
    \/ \E id \in TaskIds : Counted(mark_completed(id))
    \/ \E id \in TaskIds : Counted(mark_failed(id))
    \/ \E id \in TaskIds, status \in TaskStatus :
          Counted(update_task_status(id, status))

Spec == Init /\ [][Next]_vars

\* add_task, add_dependency and remove_dependency alone, any number of calls.
GraphNext ==
    \/ \E id \in TaskIds, priority \in Priorities : Free(add_task(id, priority))
    \/ \E d \in TaskIds, b \in TaskIds : Free(add_dependency(d, b))
    \/ \E d \in TaskIds, b \in TaskIds : Free(remove_dependency(d, b))

GraphSpec == Init /\ [][GraphNext]_vars

\* add_dependency calls of several callers interleaved: a caller may be
\* pre-empted between its cycle check and its insertion.
RaceNext ==
    \/ \E id \in TaskIds : Free(add_task(id, 1))
    \/ \E c \in Callers, d \in TaskIds, b \in TaskIds :
          Free(add_dependency_check(c, d, b))
    \/ \E c \in Callers : Free(add_dependency_insert(c))

RaceSpec == Init /\ [][RaceNext]_vars

\* The documents and patches given to create_context and update_context.
Documents == {[k \in {"k1"} |-> 1]}
Patches == {[k \in {"k2"} |-> 2]}
\* The ttl arguments: none, or one second.
Ttls == {None, 1}
\* The access_level arguments of share_context.
ShareLevels == {"read", "write"}

\* One context of the store under the calls that create it, read it, share
\* it, update it and link it, with the clock: any number of calls.
AccessNext ==
    \/ \E owner \in Agents, data \in Documents, level \in AccessLevel, ttl \in Ttls :
          Free(create_context("ctx1", owner, data, level, ttl))
    \/ \E agent \in Agents : Free(get_context("ctx1", agent))
    \/ \E agent \in Agents, patch \in Patches :
          Free(update_context("ctx1", agent, patch))
    \/ \E agent \in Agents : Free(share_context("ctx1", {agent}, "read"))
    \/ \E agent \in Agents : Free(subscribe("ctx1", agent))
    \/ Free(link_contexts("ctx1", "ctx1"))
    \/ Free(Tick)

AccessSpec == Init /\ [][AccessNext]_vars

\* One context of one owner shared with any list of agents at either level,
\* with the subscriptions, the updates and the clock: any number of calls.
ShareNext ==
    \/ \E data \in Documents, level \in AccessLevel, ttl \in Ttls :
          Free(create_context("ctx1", "Designer", data, level, ttl))
    \/ \E agent \in Agents : Free(get_context("ctx1", agent))
    \/ \E agent \in Agents, patch \in Patches :
          Free(update_context("ctx1", agent, patch))
    \/ \E agent_names \in SUBSET Agents, level \in ShareLevels :
          Free(share_context("ctx1", agent_names, level))
    \/ \E agent \in Agents : Free(subscribe("ctx1", agent))
    \/ \E agent \in Agents : Free(unsubscribe("ctx1", agent))
    \/ Free(Tick)

ShareSpec == Init /\ [][ShareNext]_vars

\* The patch each caller gives to update_context.
PatchOf == [c \in Callers |->
               IF c = "w1" THEN [k \in {"k2"} |-> 2] ELSE [k \in {"k3"} |-> 3]]

\* The owner's update_context calls of several callers on one context
\* interleaved: a caller may be pre-empted between any two of its steps.
UpdateRaceNext ==
    \/ \E data \in Documents, level \in AccessLevel, ttl \in Ttls :
          Free(create_context("ctx1", "Designer", data, level, ttl))
    \/ \E c \in Callers :
          Free(update_context_archive(c, "ctx1", "Designer", PatchOf[c]))
    \/ \E c \in Callers : Free(update_context_merge(c))
    \/ \E c \in Callers : Free(update_context_load_version(c))
    \/ \E c \in Callers : Free(update_context_store_version(c))

UpdateRaceSpec == Init /\ [][UpdateRaceNext]_vars

\* The context ids and the depth arguments of the relation graph.
ContextIds == {"ctx1", "ctx2", "ctx3"}
Depths == 0..3

\* Contexts created, linked (also to themselves and repeatedly) and deleted:
\* any number of calls.
LinkNext ==
    \/ \E id \in ContextIds, data \in Documents :
          Free(create_context(id, "Designer", data, PUBLIC, None))
    \/ \E id1 \in ContextIds, id2 \in ContextIds : Free(link_contexts(id1, id2))
    \/ \E id \in ContextIds : Free(delete_context(id))

LinkSpec == Init /\ [][LinkNext]_vars

\* ---- the life of one context: created, read, updated, shared, deleted,
\* expired and created again ----

LifeLevels == {PRIVATE, PUBLIC}

LifeNext ==
    \/ \E data \in Documents, level \in LifeLevels, ttl \in Ttls :
          Free(create_context("ctx1", "Designer", data, level, ttl))
    \/ Free(get_context("ctx1", "Developer"))
    \/ \E agent \in Agents, patch \in Patches :
          Free(update_context("ctx1", agent, patch))
    \/ Free(share_context("ctx1", {"Developer"}, "read"))
    \/ Free(delete_context("ctx1"))
    \/ Free(cleanup_expired)
    \/ Free(Tick)

LifeSpec == Init /\ [][LifeNext]_vars

\* ---- status transitions on two registered tasks and an unregistered id ----

RegisteredIds == {"T1", "T2"}

StatusNext ==
    \/ \E id \in RegisteredIds : Free(add_task(id, 1))
    \/ \E d \in RegisteredIds, b \in RegisteredIds : Free(add_dependency(d, b))
    \/ \E id \in TaskIds : Free(mark_completed(id))
    \/ \E id \in TaskIds : Free(mark_failed(id))
    \/ \E id \in TaskIds, status \in TaskStatus :
          Free(update_task_status(id, status))
    \/ Free(Tick)

StatusSpec == Init /\ [][StatusNext]_vars

\* ---- the conflict engine: one conflict, its votes and its resolutions ----

ConflictIds == {"c1"}
UnknownConflictId == "c2"
OptionIds == {"o1", "o2"}
UnknownOptionId == "o3"
AgentLists == {<<>>, <<"Designer">>, <<"Designer", "Developer">>}
OptionLists == {<<>>, <<"o1">>, <<"o1", "o2">>, <<"o2", "o1">>}

VotingStrategies == {MAJORITY_VOTE, CONSENSUS}

\* Creating a conflict, voting on it and resolving it by the votes.
VoteNext ==
    \/ \E conflict_id \in ConflictIds, agents_involved \in AgentLists,
          option_ids \in OptionLists :
          Counted(create_conflict(conflict_id, agents_involved, option_ids))
    \/ \E conflict_id \in ConflictIds, agent_name \in Agents,
          option_id \in OptionIds \cup {UnknownOptionId} :
          Counted(vote(conflict_id, agent_name, option_id))
    \/ \E conflict_id \in ConflictIds, strategy \in VotingStrategies :
          Counted(resolve(conflict_id, strategy))

VoteSpec == Init /\ [][VoteNext]_vars

\* Every strategy, escalation and the clock, on a conflict whose options and
\* agents are fixed.
ConflictNext ==
    \/ \E conflict_id \in ConflictIds :
          Counted(create_conflict(conflict_id, <<"Designer">>,
                                  <<"o1", "o2">>))
    \/ \E conflict_id \in ConflictIds :
          Counted(vote(conflict_id, "Designer", "o2"))
    \/ \E conflict_id \in ConflictIds \cup {UnknownConflictId},
          strategy \in ResolutionStrategy :
          /\ Len(resolution_history) < MaxResolutions
          /\ Counted(resolve(conflict_id, strategy))
    \/ \E conflict_id \in ConflictIds :
          Counted(escalate_conflict(conflict_id, "no agreement"))
    \/ Counted(set_escalation_handler)
    \/ Counted(Tick)

ConflictSpec == Init /\ [][ConflictNext]_vars

\* Votes of an involved agent and of another agent on a conflict in every
\* status, with conflicts created again under the same id.
EngineOptionLists == {<<"o1">>, <<"o2", "o1">>}
EngineStrategies == {MAJORITY_VOTE, CONSENSUS, RANDOM}

EngineNext ==
    \/ \E conflict_id \in ConflictIds, option_ids \in EngineOptionLists :
          Free(create_conflict(conflict_id, <<"Designer">>, option_ids))
    \/ \E conflict_id \in ConflictIds, agent_name \in Agents,
          option_id \in OptionIds :
          Free(vote(conflict_id, agent_name, option_id))
    \/ \E conflict_id \in ConflictIds, strategy \in EngineStrategies :
          /\ Len(resolution_history) < MaxResolutions
          /\ Free(resolve(conflict_id, strategy))
    \/ \E conflict_id \in ConflictIds :
          Free(escalate_conflict(conflict_id, "no agreement"))

EngineSpec == Init /\ [][EngineNext]_vars

\* ---- the message bus: one bus, its backend and what it published ----

BackendTypes == {"redis", "rabbitmq", "memory"}
Recipients == {<<>>, <<"Designer">>, <<"Designer", "Developer">>,
               <<"Developer", "Designer">>}
ToAgents == {Single(name) : name \in Agents}
               \cup {Several(names) : names \in Recipients}
\* The messages callers send, with an id the caller chose.
Messages ==
    {Message(0, "Developer", to_agent, "request", "review", "doc", priority) :
        to_agent \in ToAgents, priority \in {HIGH, NORMAL}}

BusNext ==
    \/ \E backend_type \in BackendTypes, result \in ConnectResults :
          Counted(MessageBus(backend_type, result))
    \/ \E result \in ConnectResults : Counted(connect(result))
    \/ Counted(close)
    \/ \E message \in Messages, reachable \in BOOLEAN :
          /\ Len(published) < MaxPublished
          /\ Counted(send_message(message, reachable))
    \/ \E message \in Messages, reachable \in BOOLEAN :
          /\ Len(published) < MaxPublished
          /\ Counted(broadcast_message(message, reachable))

BusSpec == Init /\ [][BusNext]_vars

\* The values callers give as to_agent, and the messages they construct.
ToAgentValues == {Str(""), Str("Designer"), List(<<>>), List(<<"">>),
                  List(<<"Designer", "Developer">>), Other("int"),
                  Other("NoneType")}
GivenTtls == {None, 0, 1}
GivenTimestamps == {None, 0}

\* Messages are constructed, time passes, and the message held is asked
\* whether it has expired and is validated.
ProtocolNext ==
    \/ \E to_agent \in ToAgentValues, msg_type \in {TASK_REQUEST, "task"},
          subject \in {"review", NoneStr}, timestamp \in GivenTimestamps,
          ttl \in GivenTtls :
          Free(compose(0, to_agent, msg_type, subject, timestamp, ttl))
    \/ Free(call_is_expired)
    \/ Free(call_validate_message)
    \/ Free(Tick)

ProtocolSpec == Init /\ [][ProtocolNext]_vars

\* The sizes the audit log is constructed with: below and from the size at
\* which a tenth of it is an event.
MaxEventsGiven == {1, 2, 10, 11}

\* An audit logger is constructed and events of two subjects are logged
\* while the list is no longer than max_events.
AuditNext ==
    \/ \E max_events \in MaxEventsGiven : Free(AuditLogger(max_events))
    \/ \E subject \in {"ctx1", "T1"} :
          /\ Len(audit.events) <= audit.max_events
          /\ Free(log_event("context_created", "Designer", subject, "create"))
    \/ Free(clear_events)

AuditSpec == Init /\ [][AuditNext]_vars

(* ============================== claims ================================= *)

\* The tasks that task_id depends on, directly or through other tasks.
TransitiveBlockers(task_id) ==
    Visit(dependencies, GetOrEmpty(dependencies, task_id), {})

\* The place of a task in the registration order.
Place(task_id) == CHOOSE i \in 1..Len(order) : order[i] = task_id

\* C1: after any sequence of add_task, add_dependency and remove_dependency
\* calls the accepted edge set has no cycle: no task is among the tasks it
\* transitively depends on.
C1_Acyclic ==
    \A t \in TaskIds : t \notin TransitiveBlockers(t)

\* C2: an add_dependency call rejected by the cycle check leaves the task map
\* and both adjacency maps as they were.
C2_CycleRejectionChangesNothing ==
    [][(last'.op = "add_dependency" /\ last'.outcome = "CycleDetected")
        => UNCHANGED <<tasks, order, dependencies, dependents>>]_vars

\* A cycle rejection has happened in a graph that already holds an edge.
C2_Witness ==
    /\ last.op = "add_dependency"
    /\ last.outcome = "CycleDetected"
    /\ \E t \in DOMAIN dependencies : dependencies[t] # {}

\* C3: when add_dependency calls of different agents interleave, the graph
\* still never holds a cycle: no accepted edge has a blocker that is, or
\* transitively depends on, its dependent.
C3_AcyclicUnderInterleaving ==
    \A d \in DOMAIN dependencies : \A b \in dependencies[d] :
        d \notin ({b} \cup TransitiveBlockers(b))

\* C4: a task is in get_ready_tasks() iff its status is PENDING and every task
\* it directly depends on is COMPLETED.
C4_ReadinessCorrect ==
    LET ready == get_ready_tasks IN
    \A t \in TaskIds :
        (\E i \in 1..Len(ready) : ready[i] = t)
        <=> /\ t \in DOMAIN tasks
            /\ tasks[t].status = PENDING
            /\ \A b \in dependencies[t] : tasks[b].status = COMPLETED

\* The chain T3 -> T2 -> T1 after T1 was completed: only T2 is ready.
C4_Witness ==
    /\ DOMAIN tasks = TaskIds
    /\ dependencies["T3"] = {"T2"}
    /\ dependencies["T2"] = {"T1"}
    /\ dependencies["T1"] = {}
    /\ tasks["T1"].status = COMPLETED
    /\ tasks["T2"].status = PENDING
    /\ tasks["T3"].status = PENDING
    /\ get_ready_tasks = <<"T2">>

\* C5: get_blockers(id) is exactly the set of direct blockers of id whose
\* status is PENDING, IN_PROGRESS, FAILED or BLOCKED, every direct blocker
\* being a registered task, and is_ready(id) iff get_blockers(id) is empty.
C5_BlockersExact ==
    \A id \in TaskIds :
        /\ get_dependencies(id) \subseteq DOMAIN tasks
        /\ get_blockers(id) =
              {b \in get_dependencies(id) :
                  tasks[b].status \in {PENDING, IN_PROGRESS, FAILED, BLOCKED}}
        /\ is_ready(id) <=> (get_blockers(id) = {})

\* A FAILED blocker still blocks.
C5_Witness ==
    \E id \in DOMAIN tasks : \E b \in dependencies[id] :
        /\ tasks[b].status = FAILED
        /\ get_blockers(id) = {b}
        /\ ~is_ready(id)

\* C6: get_ready_tasks() is sorted ascending by priority, and tasks of equal
\* priority keep the order in which they were registered.
C6_ReadySortedStable ==
    LET ready == get_ready_tasks IN
    \A i \in 1..Len(ready) : \A j \in 1..Len(ready) :
        i < j =>
            /\ tasks[ready[i]].priority <= tasks[ready[j]].priority
            /\ tasks[ready[i]].priority = tasks[ready[j]].priority
                  => Place(ready[i]) < Place(ready[j])

\* Three ready tasks, two of equal priority, returned in another order than
\* the one they were registered in.
C6_Witness ==
    LET ready == get_ready_tasks IN
    /\ Len(ready) = 3
    /\ tasks[ready[1]].priority = tasks[ready[2]].priority
    /\ tasks[ready[2]].priority < tasks[ready[3]].priority
    /\ ready # order

\* C7: add_dependency with an unregistered dependent or blocking id ends with
\* the unknown-task error and changes neither the task map nor an adjacency
\* map.
C7_UnknownTaskRejected ==
    [][\A d \in TaskIds : \A b \in TaskIds :
          (add_dependency(d, b) /\ (d \notin DOMAIN tasks \/ b \notin DOMAIN tasks))
          => /\ last'.outcome = "UnknownTask"
             /\ UNCHANGED <<tasks, order, dependencies, dependents>>]_vars

\* An add_dependency naming an unregistered id was rejected while tasks and
\* an edge exist.
C7_Witness ==
    /\ last.op = "add_dependency"
    /\ last.outcome = "UnknownTask"
    /\ \E t \in DOMAIN dependencies : dependencies[t] # {}

Granted(context, agent) ==
    /\ agent \in DOMAIN context.access_permissions
    /\ context.access_permissions[agent]

C11_OwnerRetrieves ==
    \A id \in DOMAIN contexts :
        ~is_expired(contexts[id])
        => /\ get_context_result(id, contexts[id].owner) = "context"
           /\ id \in find_contexts(contexts[id].owner)

C13_VersionCountsUpdates ==
    [][/\ last' = Call("create_context", "ok")
            => contexts'["ctx1"].version = 1
       /\ \A agent \in Agents : \A patch \in Patches :
            (last' = Call("update_context", "true")
                /\ update_context("ctx1", agent, patch))
            => /\ contexts'["ctx1"].version = contexts["ctx1"].version + 1
               /\ Len(context_history'["ctx1"])
                     = Len(context_history["ctx1"]) + 1]_vars

\* A successful update has taken the context from version 1 to version 2.
C13_Witness ==
    /\ last = Call("update_context", "true")
    /\ "ctx1" \in DOMAIN contexts
    /\ contexts["ctx1"].version = 2
    /\ Len(context_history["ctx1"]) = 2

\* C14: after a successful update_context the entry it appended to the
\* history equals the context as it was right before the update: it holds the
\* data and the version number the context had before, not the new ones.
C14_ArchivedEntryIsPreUpdate ==
    [][\A agent \in Agents : \A patch \in Patches :
          (last' = Call("update_context", "true")
              /\ update_context("ctx1", agent, patch))
          => LET newest == Len(context_history["ctx1"]) IN
             /\ history_data("ctx1", newest)' = contexts["ctx1"].data
             /\ history_version("ctx1", newest)' = contexts["ctx1"].version]_vars

\* C15: the history of a context is append-only: while the context exists no
\* call removes or reorders entries, and the data and the version an entry
\* records never change.
C15_HistoryAppendOnly ==
    [][("ctx1" \in DOMAIN contexts /\ "ctx1" \in DOMAIN contexts')
          => /\ Len(context_history'["ctx1"]) >= Len(context_history["ctx1"])
             /\ \A i \in 1..Len(context_history["ctx1"]) :
                   /\ history_data("ctx1", i)' = history_data("ctx1", i)
                   /\ history_version("ctx1", i)' = history_version("ctx1", i)]_vars

\* C16: two concurrent update_context calls of the owner on one context act
\* as if serialized: once both have returned, the version has grown by
\* exactly 2, the history by exactly 2 entries, and data holds the keys of
\* both patches.
C16_ConcurrentUpdatesSerialize ==
    (\A c \in Callers : pending[c].pc = "returned")
    => /\ contexts["ctx1"].version = 1 + Cardinality(Callers)
       /\ Len(context_history["ctx1"]) = 1 + Cardinality(Callers)
       /\ \A c \in Callers : DOMAIN PatchOf[c] \subseteq DOMAIN contexts["ctx1"].data

\* C17: a context created with a ttl is returned by get_context to a
\* requester with access while at most ttl seconds have passed since
\* created_at; the first get_context after that returns absent and removes the
\* context, and get_context for the id stays absent until the id is created
\* again.
C17_ExpiryOnRead ==
    /\ [](\A id \in DOMAIN contexts : \A agent \in Agents :
            (/\ contexts[id].ttl # None
             /\ now - contexts[id].created_at <= contexts[id].ttl
             /\ has_access(contexts[id], agent))
            => get_context_result(id, agent) = "context")
    /\ [](\A agent \in Agents :
            "ctx1" \notin DOMAIN contexts
            => get_context_result("ctx1", agent) = "absent")
    /\ [][/\ \A agent \in Agents :
              (/\ last'.op = "get_context"
               /\ get_context("ctx1", agent)
               /\ "ctx1" \in DOMAIN contexts
               /\ contexts["ctx1"].ttl # None
               /\ now - contexts["ctx1"].created_at > contexts["ctx1"].ttl)
              => /\ last'.outcome = "absent"
                 /\ "ctx1" \notin DOMAIN contexts'
          /\ ("ctx1" \notin DOMAIN contexts /\ "ctx1" \in DOMAIN contexts')
              => last' = Call("create_context", "ok")]_vars

\* A get_context, made more than ttl seconds after the creation, has found
\* the context expired and removed it.
C17_Witness ==
    /\ last = Call("get_context", "absent")
    /\ "ctx1" \notin DOMAIN contexts
    /\ "ctx1" \in DOMAIN detached
    /\ detached["ctx1"].ttl # None
    /\ now - detached["ctx1"].created_at > detached["ctx1"].ttl

\* C18: after share_context(id, agents) on an existing context every listed
\* agent has access to it (get_context returns it to them unless it has
\* expired) and is among get_subscribed_agents(id); share_context on an
\* unknown id returns false and changes no permission and no subscription.
C18_ShareGrantsAndSubscribes ==
    [][\A agent_names \in SUBSET Agents : \A level \in ShareLevels :
          (last'.op = "share_context" /\ share_context("ctx1", agent_names, level))
          => IF "ctx1" \in DOMAIN contexts
             THEN /\ last'.outcome = "true"
                  /\ \A agent \in agent_names :
                        /\ has_access(contexts'["ctx1"], agent)
                        /\ ~is_expired(contexts["ctx1"])
                              => get_context_result("ctx1", agent)' = "context"
                        /\ agent \in get_subscribed_agents("ctx1")'
             ELSE /\ last'.outcome = "false"
                  /\ UNCHANGED <<contexts, subscriptions>>]_vars

\* A context that no agent could read was shared with both agents: both have
\* access and both are subscribed.
C18_Witness ==
    /\ last = Call("share_context", "true")
    /\ "ctx1" \in DOMAIN contexts
    /\ contexts["ctx1"].access_level \in {TEAM, ROLE}
    /\ \A agent \in Agents :
          /\ Granted(contexts["ctx1"], agent)
          /\ get_context_result("ctx1", agent) = "context"
    /\ get_subscribed_agents("ctx1") = Agents

\* The ids in a relation list.
Listed(context_id) ==
    {contexts[context_id].related_contexts[i] :
        i \in 1..Len(contexts[context_id].related_contexts)}

\* The live contexts one relation hop away from a context of the set.
Hop(from) == {b \in DOMAIN contexts : \E a \in from : b \in Listed(a)}

\* The live contexts reached from the set in 1 to hops relation hops.
RECURSIVE WithinHops(_, _)
WithinHops(from, hops) ==
    IF hops = 0 THEN {}
    ELSE Hop(from) \cup WithinHops(Hop(from), hops - 1)

\* C19: the relation between contexts is bidirectional in every reachable
\* state: for two live contexts a and b, b is listed in a's related contexts
\* iff a is listed in b's.
C19_RelationBidirectional ==
    \A a \in DOMAIN contexts : \A b \in DOMAIN contexts :
        b \in Listed(a) <=> a \in Listed(b)

\* C20: get_related_contexts(id, depth) returns exactly the live contexts
\* other than id reached from id in at least 1 and at most depth relation
\* hops through live contexts, each exactly once; for an unknown id or depth
\* 0 it returns the empty list.
C20_RelatedExact ==
    \A id \in ContextIds : \A depth \in Depths :
        LET related == get_related_contexts(id, depth) IN
        /\ {related[i] : i \in 1..Len(related)}
              = IF id \in DOMAIN contexts
                THEN WithinHops({id}, depth) \ {id}
                ELSE {}
        /\ \A i \in 1..Len(related) : \A j \in 1..Len(related) :
              related[i] = related[j] => i = j
        /\ (id \notin DOMAIN contexts \/ depth = 0) => related = <<>>

\* The chain ctx1 - ctx2 - ctx3: one hop from ctx1 gives ctx2, two hops give
\* ctx2 and ctx3.
C20_Witness ==
    /\ DOMAIN contexts = ContextIds
    /\ contexts["ctx1"].related_contexts = <<"ctx2">>
    /\ contexts["ctx2"].related_contexts = <<"ctx1", "ctx3">>
    /\ get_related_contexts("ctx1", 1) = <<"ctx2">>
    /\ get_related_contexts("ctx1", 2) = <<"ctx2", "ctx3">>
    /\ get_related_contexts("ctx1", 0) = <<>>

\* The agents that hold a vote on an option of a conflict.
Voters(conflict, option_id) ==
    {conflict.votes[option_id][i] : i \in 1..Len(conflict.votes[option_id])}

\* The last record of the resolution history.
NewestResolution == resolution_history[Len(resolution_history)]

C22_ConsensusUnique ==
    [][\A conflict_id \in ConflictIds :
          (conflict_id \in DOMAIN conflicts /\ resolve(conflict_id, CONSENSUS))
          => LET conflict == conflicts[conflict_id]
                 agreed == {option_id \in DOMAIN conflict.votes :
                               Len(conflict.votes[option_id])
                                  = Len(conflict.agents_involved)}
             IN IF Cardinality(agreed) = 1
                THEN last'.outcome \in agreed
                ELSE last'.outcome = NoneStr]_vars

\* C23: voting is idempotent per agent and option: the same vote again
\* leaves every vote count as it was, a vote of the agent for another option
\* adds to that option and keeps the agent's earlier votes, and a vote for an
\* unknown option changes nothing.
C23_VoteIdempotent ==
    [][\A conflict_id \in ConflictIds, agent_name \in Agents,
          option_id \in OptionIds \cup {UnknownOptionId} :
          vote(conflict_id, agent_name, option_id)
          => LET before == conflicts[conflict_id]
                 after == conflicts'[conflict_id]
             IN IF option_id \notin DOMAIN before.votes
                THEN after = before
                ELSE IF agent_name \in Voters(before, option_id)
                THEN \A o \in DOMAIN before.votes :
                        Len(after.votes[o]) = Len(before.votes[o])
                ELSE /\ Len(after.votes[option_id])
                           = Len(before.votes[option_id]) + 1
                     /\ agent_name \in Voters(after, option_id)
                     /\ \A o \in DOMAIN before.votes \ {option_id} :
                           after.votes[o] = before.votes[o]]_vars

\* The Designer holds a vote on both options, one vote on each.
C23_Witness ==
    /\ last = Call("vote", "true")
    /\ "c1" \in DOMAIN conflicts
    /\ DOMAIN conflicts["c1"].votes = OptionIds
    /\ \A option_id \in OptionIds :
          conflicts["c1"].votes[option_id] = <<"Designer">>
    /\ calls >= 4

\* C24: votes commute: for a vote and any vote of another agent on the same
\* conflict, on the same or on another option, both orders give the same
\* vote count for every option and the same MAJORITY_VOTE and CONSENSUS
\* results.
C24_VotesCommute ==
    [][\A conflict_id \in ConflictIds, agent_name \in Agents,
          option_id \in OptionIds \cup {UnknownOptionId} :
          vote(conflict_id, agent_name, option_id)
          => \A other \in Agents \ {agent_name},
                other_option \in OptionIds \cup {UnknownOptionId} :
                LET this_first ==
                        Conflict_vote(conflicts'[conflict_id],
                                      other, other_option)
                    other_first ==
                        Conflict_vote(
                            Conflict_vote(conflicts[conflict_id],
                                          other, other_option),
                            agent_name, option_id)
                IN /\ \A o \in DOMAIN this_first.votes :
                         Len(this_first.votes[o]) = Len(other_first.votes[o])
                   /\ StrategyResults(this_first, MAJORITY_VOTE)
                         = StrategyResults(other_first, MAJORITY_VOTE)
                   /\ StrategyResults(this_first, CONSENSUS)
                         = StrategyResults(other_first, CONSENSUS)]_vars

\* Both agents voted for o1, the Developer first, and the Designer then
\* voted for o2.
C24_Witness ==
    /\ last = Call("vote", "true")
    /\ "c1" \in DOMAIN conflicts
    /\ conflicts["c1"].options = <<"o1", "o2">>
    /\ conflicts["c1"].votes["o1"] = <<"Developer", "Designer">>
    /\ conflicts["c1"].votes["o2"] = <<"Designer">>

\* C25: resolve(conflict_id, ESCALATE) on an existing conflict returns
\* absent, records no resolution and sets the status of the conflict to
\* ESCALATED (the escalation handler, when set, is called by the escalation).
C25_EscalateStrategyEscalates ==
    [][\A conflict_id \in ConflictIds :
          (conflict_id \in DOMAIN conflicts /\ resolve(conflict_id, ESCALATE))
          => /\ last'.outcome = NoneStr
             /\ resolution_history' = resolution_history
             /\ conflicts'[conflict_id].status = ESCALATED]_vars

\* C26: resolve is a query and a commit: with a result, whatever the status
\* was, the conflict becomes RESOLVED with the result as resolution
\* (overwriting an earlier one) and resolved_at stamped, and exactly one
\* record is appended to the resolution history; with an absent result
\* neither the conflict nor the history changes.
C26_QueryAndCommit ==
    [][\A conflict_id \in ConflictIds \cup {UnknownConflictId},
          strategy \in ResolutionStrategy :
          (last'.op = "resolve" /\ resolve(conflict_id, strategy))
          => IF last'.outcome # NoneStr
             THEN /\ conflict_id \in DOMAIN conflicts
                  /\ conflicts'[conflict_id].status = RESOLVED
                  /\ conflicts'[conflict_id].resolution = last'.outcome
                  /\ conflicts'[conflict_id].resolved_at = now
                  /\ conflicts'[conflict_id].votes
                        = conflicts[conflict_id].votes
                  /\ conflicts'[conflict_id].options
                        = conflicts[conflict_id].options
                  /\ Len(resolution_history') = Len(resolution_history) + 1
                  /\ SubSeq(resolution_history', 1, Len(resolution_history))
                        = resolution_history
                  /\ NewestResolution'.conflict_id = conflict_id
                  /\ NewestResolution'.strategy = strategy
                  /\ NewestResolution'.resolution = last'.outcome
             ELSE UNCHANGED <<conflicts, resolution_history>>]_vars

\* A conflict resolved to o1, then escalated, is resolved again, to o2, at a
\* later time.
C26_Witness ==
    /\ last = Call("resolve", "o2")
    /\ "c1" \in DOMAIN conflicts
    /\ conflicts["c1"].status = RESOLVED
    /\ conflicts["c1"].resolution = "o2"
    /\ conflicts["c1"].escalation_reason # NoneStr
    /\ conflicts["c1"].resolved_at = 1
    /\ Len(resolution_history) = 2
    /\ resolution_history[1].resolution = "o1"
    /\ resolution_history[1].resolved_at = 0
    /\ resolution_history[2].resolution = "o2"

\* The lists of at most two votes.
VoteLists == UNION {[1..n -> Agents] : n \in 0..2}

\* The conflicts with the agents and the options of the conflict, in the
\* same order, and the same set of votes on every option, in any order.
SameVotes(conflict) ==
    {[conflict EXCEPT !.votes = votes] :
        votes \in {v \in [DOMAIN conflict.votes -> VoteLists] :
                     \A o \in DOMAIN conflict.votes :
                        /\ Len(v[o]) = Len(conflict.votes[o])
                        /\ {v[o][i] : i \in 1..Len(v[o])}
                              = Voters(conflict, o)}}

\* C27: MAJORITY_VOTE and CONSENSUS are deterministic: conflicts with the
\* same options in the same order, the same agents involved and the same set
\* of votes have the same result, in whatever order the votes came, and a
\* resolve returns what the next resolve with the same strategy returns.
C27_Deterministic ==
    /\ [](\A conflict_id \in DOMAIN conflicts :
            \A same \in SameVotes(conflicts[conflict_id]) :
               \A strategy \in VotingStrategies :
                  StrategyResults(same, strategy)
                     = StrategyResults(conflicts[conflict_id], strategy))
    /\ [][\A conflict_id \in ConflictIds, strategy \in VotingStrategies :
            (conflict_id \in DOMAIN conflicts
                /\ resolve(conflict_id, strategy))
            => StrategyResults(conflicts'[conflict_id], strategy)
                  = {last'.outcome}]_vars

\* Both agents voted for o1, the Developer first, and two CONSENSUS resolves
\* in a row returned o1.
C27_Witness ==
    /\ last = Call("resolve", "o1")
    /\ "c1" \in DOMAIN conflicts
    /\ conflicts["c1"].agents_involved = <<"Designer", "Developer">>
    /\ conflicts["c1"].votes["o1"] = <<"Developer", "Designer">>
    /\ Len(resolution_history) = 2
    /\ \A i \in 1..2 :
          /\ resolution_history[i].strategy = CONSENSUS
          /\ resolution_history[i].resolution = "o1"

\* The backend of the bus is connected: its client is set and open.
Connected == backend.handle /\ backend.open

\* C28: broadcast_message on a message whose to_agent lists N recipients
\* publishes exactly N messages, the i-th on the channel of the i-th
\* recipient and addressed to that recipient alone, with an id different from
\* the original's and from the other copies' and with the sender, type,
\* subject, data and priority of the original, and returns the N ids in
\* recipient order (on a bus whose backend is connected).
C28_BroadcastExpands ==
    [][\A message \in Messages, reachable \in BOOLEAN :
          (/\ last'.op = "broadcast_message"
           /\ Connected
           /\ message.to_agent.is_list
           /\ broadcast_message(message, reachable))
          => LET names == message.to_agent.names
                 before == Len(published)
                 copy(i) == published'[before + i].message
             IN /\ Len(published') = before + Len(names)
                /\ SubSeq(published', 1, before) = published
                /\ \A i \in 1..Len(names) :
                      /\ published'[before + i].channel = Channel(names[i])
                      /\ copy(i).to_agent = Single(names[i])
                      /\ copy(i).id # message.id
                      /\ \A j \in 1..Len(names) :
                            copy(j).id = copy(i).id => j = i
                      /\ copy(i).from_agent = message.from_agent
                      /\ copy(i).msg_type = message.msg_type
                      /\ copy(i).subject = message.subject
                      /\ copy(i).data = message.data
                      /\ copy(i).priority = message.priority
                /\ last'.outcome
                      = Returned([i \in 1..Len(names) |-> copy(i).id])]_vars

\* C29: send_message publishes the message on the channels of its to_agent:
\* for one name on exactly the channel of that name, for a list of names on
\* the channel of every listed name (on a bus whose backend is connected).
C29_SendReachesEveryChannel ==
    [][\A message \in Messages, reachable \in BOOLEAN :
          (/\ last'.op = "send_message"
           /\ Connected
           /\ send_message(message, reachable))
          => LET before == Len(published)
                 added == {published'[i].channel :
                              i \in (before + 1)..Len(published')}
             IN /\ SubSeq(published', 1, before) = published
                /\ \A i \in (before + 1)..Len(published') :
                      published'[i].message = message
                /\ added = {Channel(message.to_agent.names[i]) :
                               i \in 1..Len(message.to_agent.names)}
                /\ ~message.to_agent.is_list
                      => Len(published') = before + 1]_vars

\* C30: whenever the backend is not connected, because connect has not
\* succeeded or because close() was called, send_message fails with an error
\* and publishes nothing.
C30_SendFailsWhenNotConnected ==
    [][\A message \in Messages, reachable \in BOOLEAN :
          (/\ last'.op = "send_message"
           /\ ~Connected
           /\ send_message(message, reachable))
          => /\ last'.outcome.error # "none"
             /\ published' = published]_vars

\* The tasks other than task_id, the order of the tasks and both edge maps
\* are as before the step.
OnlyTaskChanged(task_id) ==
    /\ DOMAIN tasks' = DOMAIN tasks
    /\ \A other \in DOMAIN tasks \ {task_id} : tasks'[other] = tasks[other]
    /\ UNCHANGED <<order, dependencies, dependents>>

\* C34: status transitions are not gated by readiness and touch nothing
\* else: mark_completed, mark_failed and update_task_status set the status of
\* a registered task (mark_completed also stamps completed_at) whether or not
\* its blockers are COMPLETED, change no edge and no other task, and do
\* nothing on an unregistered id.
C34_StatusTransitionsUngated ==
    [][\A task_id \in TaskIds :
          /\ (last'.op = "mark_completed" /\ mark_completed(task_id))
             => /\ OnlyTaskChanged(task_id)
                /\ IF task_id \in DOMAIN tasks
                   THEN tasks'[task_id] =
                           [tasks[task_id] EXCEPT !.status = COMPLETED,
                                                  !.completed_at = now]
                   ELSE tasks' = tasks
          /\ (last'.op = "mark_failed" /\ mark_failed(task_id))
             => /\ OnlyTaskChanged(task_id)
                /\ IF task_id \in DOMAIN tasks
                   THEN tasks'[task_id] =
                           [tasks[task_id] EXCEPT !.status = FAILED]
                   ELSE tasks' = tasks
          /\ \A status \in TaskStatus :
                (last'.op = "update_task_status"
                    /\ update_task_status(task_id, status))
                => /\ OnlyTaskChanged(task_id)
                   /\ IF task_id \in DOMAIN tasks
                      THEN tasks'[task_id] =
                              [tasks[task_id] EXCEPT !.status = status]
                      ELSE tasks' = tasks]_vars

\* T1 was completed at time 1 while its blocker T2 is still pending.
C34_Witness ==
    /\ last = Call("mark_completed", "ok")
    /\ DOMAIN tasks = RegisteredIds
    /\ dependencies["T1"] = {"T2"}
    /\ tasks["T2"].status = PENDING
    /\ tasks["T1"].status = COMPLETED
    /\ tasks["T1"].completed_at = 1

\* C35: the forward and the reverse adjacency map mirror each other in every
\* reachable state: b is in dependencies[d] iff d is in dependents[b], and
\* both maps have an entry for every registered task.
C35_AdjacencyMirrored ==
    /\ DOMAIN tasks \subseteq DOMAIN dependencies
    /\ DOMAIN tasks \subseteq DOMAIN dependents
    /\ \A d \in TaskIds : \A b \in TaskIds :
          (d \in DOMAIN dependencies /\ b \in dependencies[d])
             <=> (b \in DOMAIN dependents /\ d \in dependents[b])

\* T1 depended on T2 and on T3, and the edge to T3 was removed: T2 still has
\* T1 as dependent and T3 has none.
C35_Witness ==
    /\ last = Call("remove_dependency", "ok")
    /\ DOMAIN tasks = TaskIds
    /\ dependencies["T1"] = {"T2"}
    /\ dependents["T2"] = {"T1"}
    /\ dependents["T3"] = {}

\* C36: for every live context the length of its history list equals its
\* version number, after any sequence of create_context, update_context
\* (successful or failed), share_context, delete_context and creation again
\* under the same id.
C36_HistoryLengthIsVersion ==
    \A id \in DOMAIN contexts :
        /\ id \in DOMAIN context_history
        /\ Len(context_history[id]) = contexts[id].version

\* The context, created again at time 1 under the id of a deleted one that
\* had been shared, was updated once: version 2 and two history entries.
C36_Witness ==
    /\ last = Call("update_context", "true")
    /\ "ctx1" \in DOMAIN contexts
    /\ contexts["ctx1"].created_at = 1
    /\ contexts["ctx1"].access_permissions = EmptyMap
    /\ get_subscribed_agents("ctx1") = {"Developer"}
    /\ contexts["ctx1"].version = 2
    /\ Len(context_history["ctx1"]) = 2

\* C37: get_context checks the expiry before the access: on an expired
\* context it removes the context from the store and returns absent whoever
\* asks, a requester without access included; on a context that has not
\* expired or on an unknown id it changes nothing of the store.
C37_ExpiryBeforeAccess ==
    [][\A agent \in Agents :
          (last'.op = "get_context" /\ get_context("ctx1", agent))
          => IF /\ "ctx1" \in DOMAIN contexts
                /\ contexts["ctx1"].ttl # None
                /\ now - contexts["ctx1"].created_at > contexts["ctx1"].ttl
             THEN /\ last'.outcome = "absent"
                  /\ DOMAIN contexts' = DOMAIN contexts \ {"ctx1"}
                  /\ UNCHANGED <<context_history, subscriptions>>
             ELSE UNCHANGED <<contexts, context_history, subscriptions>>]_vars

\* The Developer asked for an expired private context of the Designer that
\* was never shared, and the context was removed.
C37_Witness ==
    /\ last = Call("get_context", "absent")
    /\ "ctx1" \notin DOMAIN contexts
    /\ "ctx1" \in DOMAIN detached
    /\ detached["ctx1"].access_level = PRIVATE
    /\ detached["ctx1"].owner = "Designer"
    /\ detached["ctx1"].access_permissions = EmptyMap
    /\ now - detached["ctx1"].created_at > 1

\* C38: a deletion, by delete_context, by the expiry found in get_context or
\* by cleanup_expired, removes only the live entry: the subscribers and the
\* history recorded under the id stay as they were, and the subscribers are
\* still subscribed when a context is created again under the id.
C38_DeleteKeepsSubscribers ==
    [][/\ last'.op \in {"delete_context", "get_context", "cleanup_expired"}
          => /\ UNCHANGED <<subscriptions, context_history>>
             /\ DOMAIN contexts' \subseteq DOMAIN contexts
             /\ \A id \in DOMAIN contexts' : contexts'[id] = contexts[id]
             /\ \A id \in DOMAIN contexts \ DOMAIN contexts' :
                   get_subscribed_agents(id)' = get_subscribed_agents(id)
       /\ last' = Call("create_context", "ok")
          => /\ UNCHANGED subscriptions
             /\ \A id \in DOMAIN contexts' \ DOMAIN contexts :
                   get_subscribed_agents(id)' = get_subscribed_agents(id)]_vars

\* A context is created under the id of a deleted one and the Developer, who
\* subscribed to the deleted one, is subscribed to it.
C38_Witness ==
    /\ last = Call("create_context", "ok")
    /\ "ctx1" \in DOMAIN contexts
    /\ contexts["ctx1"].version = 1
    /\ contexts["ctx1"].access_permissions = EmptyMap
    /\ get_subscribed_agents("ctx1") = {"Developer"}

ResolutionsOf(conflict_id) ==
    SelectSeq(resolution_history, LAMBDA record : record.conflict_id = conflict_id)

\* C40: in every reachable state a conflict whose status is RESOLVED has the
\* id of one of its own options as resolution and a resolved_at that is not
\* null, and a conflict on which no resolve has succeeded has a null
\* resolution.
C40_ResolvedHasResolution ==
    /\ [](\A conflict_id \in DOMAIN conflicts :
            LET conflict == conflicts[conflict_id] IN
            /\ conflict.status = RESOLVED
                  => /\ conflict.resolution
                           \in {conflict.options[i] :
                                   i \in 1..Len(conflict.options)}
                     /\ conflict.resolved_at # None
            /\ ResolutionsOf(conflict_id) = <<>>
                  => conflict.resolution = NoneStr)
    /\ [][\A conflict_id \in DOMAIN conflicts' :
            \/ last'.op = "resolve" /\ last'.outcome # NoneStr
            \/ conflicts'[conflict_id].resolution
                  = IF last'.op = "create_conflict"
                       \/ conflict_id \notin DOMAIN conflicts
                    THEN NoneStr
                    ELSE conflicts[conflict_id].resolution]_vars

\* A conflict resolved to o2 was created again with o1 as only option and
\* resolved: its resolution is o1, the RANDOM pick among its own options.
C40_Witness ==
    /\ last = Call("resolve", "o1")
    /\ "c1" \in DOMAIN conflicts
    /\ conflicts["c1"].options = <<"o1">>
    /\ conflicts["c1"].status = RESOLVED
    /\ conflicts["c1"].resolution = "o1"
    /\ conflicts["c1"].resolved_at # None
    /\ Len(resolution_history) = 2
    /\ resolution_history[1].resolution = "o2"
    /\ resolution_history[2].strategy = RANDOM

(* ---- protocol --------------------------------------------------------- *)

\* Every field of the message but to_agent passes validation and the message
\* has not outlived its ttl.
OtherFieldsValid(message) ==
    /\ MissingFields(message) \subseteq {"to_agent"}
    /\ message.msg_type \in MessageType
    /\ message.priority \in MessagePriority
    /\ message.status \in MessageStatus
    /\ ~(message.ttl # None /\ now - message.timestamp > message.ttl)

\* to_agent is a non-empty agent name or a non-empty list of names.
NamedRecipient(to_agent) ==
    \/ to_agent.type = "str" /\ to_agent.names[1] # ""
    \/ to_agent.type = "list" /\ to_agent.names # <<>>

\* C31: validate_message accepts a message whose other fields are valid only
\* if its to_agent is a non-empty agent name or a non-empty list of names; an
\* empty string, an empty list and a value that is neither a string nor a
\* list are each rejected with a reason.
C31_RecipientNonEmpty ==
    [][(/\ last'.op = "validate_message"
        /\ composed' = composed
        /\ OtherFieldsValid(composed[1])
        /\ ~NamedRecipient(composed[1].to_agent))
       => /\ last'.outcome.value[1] = FALSE
          /\ last'.outcome.value[2] # <<>>]_vars

\* C32: a message with a ttl is expired exactly when now - timestamp is
\* strictly greater than the ttl, a message without a ttl is never expired,
\* and validate_message returns (False, reason) for every expired message.
C32_ExpiryStrictlyAfterTtl ==
    [][/\ (last'.op = "is_expired" /\ composed' = composed)
          => LET message == composed[1] IN
             last'.outcome.value =
                (message.ttl # None /\ now - message.timestamp > message.ttl)
       /\ (last'.op = "validate_message" /\ composed' = composed)
          => LET message == composed[1] IN
             (message.ttl # None /\ now - message.timestamp > message.ttl)
                => /\ last'.outcome.value[1] = FALSE
                   /\ last'.outcome.value[2] # <<>>]_vars

\* A valid message to the Designer with a ttl of 1 second is validated 2
\* seconds after it was constructed and is rejected as expired.
C32_Witness ==
    /\ last.op = "validate_message"
    /\ composed # <<>>
    /\ composed[1].ttl = 1
    /\ now - composed[1].timestamp = 2
    /\ composed[1].to_agent = Str("Designer")
    /\ composed[1].subject = "review"
    /\ composed[1].msg_type = TASK_REQUEST
    /\ last.outcome.value = Rejected(<<"Message has expired">>)

(* ---- audit log -------------------------------------------------------- *)

\* C33: for every max_events >= 1, after every log_event call the audit log
\* retains at most max_events events.
C33_AuditLogBounded ==
    (last.op = "log_event" /\ audit.max_events >= 1)
       => Len(audit.events) <= audit.max_events

====
